---- MODULE Spec2Model ----
(***************************************************************************)
(* A model of the orly nostr relay core: the socket API handlers           *)
(* HandleEvent and HandleReq, the subscription publisher S (Receive,       *)
(* Deliver, removeSubscriberId), the event codec's id and signature        *)
(* checks, and the event store the handlers call.                          *)
(***************************************************************************)
EXTENDS Integers, Sequences, FiniteSets, TLC

\* ------------------------------------------------------------------ bounds

\* How many EVENT submissions the connections make in a run that mixes REQ
\* and EVENT.
MaxEv == 1

\* How many EVENT submissions the connections make in a run of ingest alone.
MaxIngest == 3

\* How many REQ envelopes the connections send in one run.
MaxReq == 2

\* How many CLOSE envelopes the connections send in one run.
MaxClose == 1

\* ------------------------------------------------------------ program data

Conns == {1, 2}

SubIds == {"s", "t"}

\* Two author keys.
Keys == <<1, 2>>
P1 == Keys[1]
P2 == Keys[2]

\* kind.Deletion
Deletion == 5

\* kind.ProfileMetadata, a replaceable kind
ProfileMetadata == 0

\* kind.TextNote, a regular kind
TextNote == 1

\* the first parameterized replaceable kind
ParamKind == 30000

IsReplaceable(k) == k = 0 \/ k = 3 \/ (k >= 10000 /\ k < 20000)

IsParameterizedReplaceable(k) == k >= 30000 /\ k < 40000

IsEphemeral(k) == k >= 20000 /\ k < 30000

\* A tag is a key and the elements after it; t.Len() is 1 + Len(t.v).
\* An e tag carries an event id, a d tag a value, an a tag the three parts
\* kind:pubkey:d-tag that bytes.Split yields.
Tag(k, v) == [k |-> k, v |-> v]

\* ----------------------------------------------------------------- codec

KeyCode(k) == CASE k = "e" -> 1 [] k = "a" -> 2 [] k = "d" -> 3 [] OTHER -> 4

RECURSIVE SeqCode(_)
SeqCode(s) ==
    IF s = <<>> THEN 7
    ELSE ((s[1] % 9973) * 31 + 11 * SeqCode(Tail(s)) + 3) % 9973

RECURSIVE TagsCode(_)
TagsCode(ts) ==
    IF ts = <<>> THEN 5
    ELSE (KeyCode(ts[1].k) * 101 + 13 * SeqCode(ts[1].v)
          + 17 * TagsCode(Tail(ts))) % 9973

\* E.ToCanonical: [0, pubkey, created_at, kind, tags, content]
ToCanonical(ev) ==
    <<0, ev.pubkey, ev.created_at, ev.kind, ev.tags, ev.content>>

\* Hash: the digest of the canonical form (ids are positive).
Hash(b) ==
    1 + ((b[2] * 7919 + b[3] * 613 + (b[4] % 9973) * 29
          + TagsCode(b[5]) * 3 + b[6]) % 9973)

\* E.GetIDBytes
GetIDBytes(ev) == Hash(ToCanonical(ev))

\* E.Sign: fills in the id and a signature by `keys` over that id.
Sign(keys, created_at, kind, tags, content) ==
    LET body == [pubkey |-> keys, created_at |-> created_at, kind |-> kind,
                 tags |-> tags, content |-> content]
        id == GetIDBytes(body)
    IN  [id |-> id, pubkey |-> keys, created_at |-> created_at, kind |-> kind,
         tags |-> tags, content |-> content,
         sig |-> [form |-> "ok", signer |-> keys, msg |-> id]]

\* Signer.Verify: a signature that does not parse is an error; otherwise
\* the signature is valid iff it is by the public key over the message.
SignerVerify(pub, msg, sig) ==
    IF sig.form # "ok" THEN [valid |-> FALSE, err |-> TRUE]
    ELSE [valid |-> sig.signer = pub /\ sig.msg = msg, err |-> FALSE]

\* E.Verify: on an error it recomputes the id and verifies again, and
\* returns an error either way.
Verify(ev) ==
    LET r == SignerVerify(ev.pubkey, ev.id, ev.sig)
    IN  IF r.err
        THEN IF GetIDBytes(ev) # ev.id
             THEN [valid |-> SignerVerify(ev.pubkey, GetIDBytes(ev), ev.sig).valid,
                   err |-> TRUE]
             ELSE [valid |-> r.valid, err |-> TRUE]
        ELSE r

\* ----------------------------------------------------------------- filter

\* filter.F: empty sets are absent options; limit is <<>> when the pointer
\* is nil and <<n>> when present.
Filter(ids, authors, kinds, dtags, limit) ==
    [ids |-> ids, authors |-> authors, kinds |-> kinds, dtags |-> dtags,
     limit |-> limit]

DTagValues(ev) ==
    {ev.tags[i].v[1] : i \in {j \in 1..Len(ev.tags) :
                                ev.tags[j].k = "d" /\ Len(ev.tags[j].v) >= 1}}

\* The value of the first d tag; an absent d tag is the empty value 0.
FirstDTag(ev) ==
    LET is == {j \in 1..Len(ev.tags) :
                 ev.tags[j].k = "d" /\ Len(ev.tags[j].v) >= 1}
    IN  IF is = {} THEN 0
        ELSE ev.tags[CHOOSE j \in is : \A o \in is : j <= o].v[1]

\* filter.F.Matches: every non-empty option admits the event.
FilterMatches(f, ev) ==
    /\ f.ids = {} \/ ev.id \in f.ids
    /\ f.authors = {} \/ ev.pubkey \in f.authors
    /\ f.kinds = {} \/ ev.kind \in f.kinds
    /\ f.dtags = {} \/ DTagValues(ev) \cap f.dtags # {}

\* filters.T.Match: the filters of one REQ form a disjunction.
Match(ff, ev) == \E i \in 1..Len(ff) : FilterMatches(ff[i], ev)

\* ------------------------------------------------------------------ store

\* The store holds one record per saved event: its serial and the event.
Rec(ser, ev) == [ser |-> ser, ev |-> ev]

\* Newest first: by created_at, and by serial among equal timestamps.
Newer(a, b) ==
    \/ a.ev.created_at > b.ev.created_at
    \/ a.ev.created_at = b.ev.created_at /\ a.ser > b.ser

RECURSIVE SortNewestFirst(_)
SortNewestFirst(S) ==
    IF S = {} THEN <<>>
    ELSE LET m == CHOOSE r \in S : \A o \in S \ {r} : Newer(r, o)
         IN  <<m.ev>> \o SortNewestFirst(S \ {m})

Take(q, n) == IF Len(q) <= n THEN q ELSE SubSeq(q, 1, n)

\* A deletion event `d` names `ev` by an e tag holding its id, or by an a
\* tag holding its kind:pubkey:d-tag coordinate.
Names(d, ev) ==
    \E i \in 1..Len(d.tags) :
        \/ /\ d.tags[i].k = "e"
           /\ Len(d.tags[i].v) >= 1
           /\ d.tags[i].v[1] = ev.id
        \/ /\ d.tags[i].k = "a"
           /\ Len(d.tags[i].v) = 3
           /\ IsParameterizedReplaceable(ev.kind)
           /\ d.tags[i].v[1] = ev.kind
           /\ d.tags[i].v[2] = ev.pubkey
           /\ d.tags[i].v[3] = FirstDTag(ev)

\* A query that takes no event for deleted.
NeverDeleted(st, r) == FALSE

\* Deletion state of a record: a stored kind-5 event of the record's own
\* author, not older than it, names it.
IsDeleted(st, r) ==
    /\ r.ev.kind # Deletion
    /\ \E d \in st :
          /\ d.ev.kind = Deletion
          /\ d.ev.pubkey = r.ev.pubkey
          /\ d.ev.created_at >= r.ev.created_at
          /\ Names(d.ev, r.ev)

SameReplaceableKey(a, b) ==
    /\ a.pubkey = b.pubkey
    /\ a.kind = b.kind
    /\ \/ IsReplaceable(a.kind)
       \/ IsParameterizedReplaceable(a.kind) /\ FirstDTag(a) = FirstDTag(b)

\* `a` wins over `b`: greater created_at, then the greater id.
Supersedes(a, b) ==
    \/ a.created_at > b.created_at
    \/ a.created_at = b.created_at /\ a.id > b.id

\* A query that skips no replaceable loser.
NeverLoser(st, r) == FALSE

\* A replaceable loser: another stored event of the same key supersedes it.
IsReplaceableLoser(st, r) ==
    \E o \in st :
        /\ o.ev.id # r.ev.id
        /\ SameReplaceableKey(o.ev, r.ev)
        /\ Supersedes(o.ev, r.ev)

ApplyLimit(f, q) == IF f.limit = <<>> THEN q ELSE Take(q, f.limit[1])

\* A query that hides deleted events and replaceable losers from a filter
\* with ids as well.
QueryHidingById(st, f) ==
    ApplyLimit(f, SortNewestFirst(
        {r \in st : /\ FilterMatches(f, r.ev)
                    /\ ~IsDeleted(st, r)
                    /\ ~IsReplaceableLoser(st, r)}))

\* D.QueryEvents: a filter with ids fetches those events as they are stored;
\* any other filter skips deleted events and replaceable losers. Results
\* are newest first, cut at the limit.
QueryEvents(st, f) ==
    IF f.ids # {}
    THEN ApplyLimit(f, SortNewestFirst({r \in st : FilterMatches(f, r.ev)}))
    ELSE ApplyLimit(f, SortNewestFirst(
            {r \in st : /\ FilterMatches(f, r.ev)
                        /\ ~IsDeleted(st, r)
                        /\ ~IsReplaceableLoser(st, r)}))

\* D.SaveEvent: a duplicate id is refused, and so is a replaceable event
\* older than the stored winner of its key; anything else is stored under
\* the next serial.
SaveRefused(st, ev) ==
    \/ \E r \in st : r.ev.id = ev.id
    \/ \E r \in st : SameReplaceableKey(r.ev, ev) /\ Supersedes(r.ev, ev)

SaveEvent(st, ser, ev) ==
    IF SaveRefused(st, ev) THEN st ELSE st \cup {Rec(ser, ev)}

\* D.DeleteEvent: removes the record of the event with this id.
DeleteEvent(st, id) == {r \in st : r.ev.id # id}

StoredIds(st) == {r.ev.id : r \in st}

\* -------------------------------------------------------------- envelopes

\* What the relay writes to a connection. `src` tells a stored result of a
\* REQ from an event fanned out by Deliver.
EventMsg(sub, ev, src) ==
    [t |-> "EVENT", sub |-> sub, id |-> ev.id, ok |-> FALSE, src |-> src]

EoseMsg(sub) == [t |-> "EOSE", sub |-> sub, id |-> 0, ok |-> FALSE, src |-> ""]

ClosedMsg(sub) ==
    [t |-> "CLOSED", sub |-> sub, id |-> 0, ok |-> FALSE, src |-> ""]

AuthMsg == [t |-> "AUTH", sub |-> "", id |-> 0, ok |-> FALSE, src |-> ""]

NoticeMsg == [t |-> "NOTICE", sub |-> "", id |-> 0, ok |-> FALSE, src |-> ""]

\* okenvelope.NewFrom, and Ok.Invalid, Ok.Error, Ok.Blocked (ok = FALSE
\* with a reason).
OkMsg(id, ok, reason) ==
    [t |-> "OK", sub |-> "", id |-> id, ok |-> ok, src |-> reason]

RECURSIVE EventMsgs(_, _, _)
EventMsgs(sub, evs, src) ==
    IF evs = <<>> THEN <<>>
    ELSE <<EventMsg(sub, evs[1], src)>> \o EventMsgs(sub, Tail(evs), src)

\* ----------------------------------------------------------------- state

VARIABLES
    store,          \* the event store: a set of records
    nextSer,        \* the store's serial counter
    Map,            \* S.Map: listener -> subscription id -> filters
    out,            \* per connection, the envelopes written to it, in order
    pc,             \* per connection, where its reader task is
    env,            \* per connection, the envelope being handled
    loc,            \* per connection, the handler's local variables
    eosed,          \* subscriptions whose EOSE is written and that are open
    deleted,        \* the ids removed in handling a deletion that verifies
    authRequired,   \* relay configuration: AuthRequired()
    publicReadable, \* relay configuration: PublicReadable()
    authedPubkey,   \* per connection, Listener.AuthedPubkey() (0: none)
    nEv, nReq, nClose,  \* how many envelopes of each label were received
    asked,          \* the last query made of the store directly
    got,            \* what that query returned
    gone,           \* subscriptions removed and not registered again
    permitted,      \* per registered subscription, the filters AcceptReq allowed
    lists,          \* Server: the owners and the lists Spider computed
    Subscription,   \* the fields of the client's Subscription
    gor,            \* the goroutines of the Subscription, and where each is
    recv            \* what was received from the Subscription's channels

\* The variables of the direct use of the store.
dbvars == <<asked, got>>

\* The variables of the relay's application layer.
appvars == <<lists>>

\* The variables of the client's Subscription.
clientvars == <<Subscription, gor, recv>>

\* The variables of the socket API, the publisher and the store.
relayvars == <<store, nextSer, Map, out, pc, env, loc, eosed, deleted,
               authRequired, publicReadable, authedPubkey, nEv, nReq, nClose,
               gone, permitted>>

vars == <<store, nextSer, Map, out, pc, env, loc, eosed, deleted, authRequired,
          publicReadable, authedPubkey, nEv, nReq, nClose, asked, got, gone,
          permitted, lists, Subscription, gor, recv>>

\* Before Spider has run: no owners, no lists.
NoLists ==
    [ownersPubkeys |-> <<>>, ownersFollowed |-> <<>>,
     followedFollows |-> <<>>, ownersMuted |-> <<>>]

\* A Subscription as it is made: not live, no EOSE yet, the wait group at
\* zero, the mutex free, the context not done, the Events channel open.
NewSub ==
    [live |-> FALSE, eosed |-> FALSE, storedwg |-> 0, mu |-> 0,
     done |-> FALSE, closed |-> FALSE]

\* The goroutines of a Subscription as it is made: start waits for the
\* context, there is no goroutine for an EOSE and none for an event.
NewGor == [start |-> "wait", eose |-> "none", evs |-> <<>>]

\* Nothing received: no event from Events, no signal from
\* EndOfStoredEvents, no dispatch made.
NoRecv == [events |-> <<>>, eose |-> <<>>, dispatched |-> <<>>]

NoEnv == [label |-> "none"]

NoLoc == [none |-> TRUE]

Write(c, msgs) == [out EXCEPT ![c] = @ \o msgs]

\* -------------------------------------------------------------- publisher

\* S.Receive, the branch that registers a subscription: under the mutex,
\* subs[m.Id] = m.Filters, creating the listener's map when it has none.
Receive(m, w, id, ff) ==
    IF w \notin DOMAIN m
    THEN [x \in DOMAIN m \cup {w} |-> IF x = w THEN (id :> ff) ELSE m[x]]
    ELSE [m EXCEPT ![w] = [y \in DOMAIN m[w] \cup {id} |->
                              IF y = id THEN ff ELSE m[w][y]]]

\* A removal that removes nothing.
removeNothing(m, w, id) == m

\* A removal that takes every subscription of the listener with it.
removeWithSiblings(m, w, id) == [x \in DOMAIN m \ {w} |-> m[x]]

\* S.removeSubscriberId: delete(p.Map[ws], id), and the listener's entry
\* too when no subscription is left.
removeSubscriberId(m, w, id) ==
    IF w \in DOMAIN m
    THEN LET subs == [y \in DOMAIN m[w] \ {id} |-> m[w][y]]
         IN  IF DOMAIN subs = {}
             THEN [x \in DOMAIN m \ {w} |-> m[x]]
             ELSE [m EXCEPT ![w] = subs]
    ELSE m

\* S.removeSubscriber: clear(p.Map[ws]); delete(p.Map, ws)
removeSubscriber(m, w) == [x \in DOMAIN m \ {w} |-> m[x]]

\* The orders in which a range over a Go map may visit the subscription ids.
Orders(S) ==
    {q \in [1..Cardinality(S) -> S] : \A i, j \in DOMAIN q : q[i] = q[j] => i = j}

\* The inner loop of S.Deliver for listener w, visiting its subscriptions in
\* the order `ord`: one EVENT envelope per subscription whose filters match.
RECURSIVE DeliverTo(_, _, _, _)
DeliverTo(m, w, ord, ev) ==
    IF ord = <<>> THEN <<>>
    ELSE (IF ord[1] \in DOMAIN m[w] /\ Match(m[w][ord[1]], ev)
          THEN <<EventMsg(ord[1], ev, "live")>>
          ELSE <<>>) \o DeliverTo(m, w, Tail(ord), ev)

\* S.Deliver: under the mutex, for every listener and every subscription of
\* it that matches, write the event to the listener.
Deliver(m, o, ords, ev) ==
    [w \in DOMAIN o |->
        IF w \in DOMAIN m THEN o[w] \o DeliverTo(m, w, ords[w], ev) ELSE o[w]]

\* ------------------------------------------------------------- auth layer

\* Listener.IsAuthed
IsAuthed(c) == authedPubkey[c] # 0

\* kind.T.IsPrivileged: direct messages and gift wraps.
IsPrivileged(k) == k \in {4, 1059, 1060}

\* auth.CheckPrivilege: a privileged event is for its author only (the
\* recipients named by p tags are not modelled).
CheckPrivilege(pk, ev) == ~IsPrivileged(ev.kind) \/ pk = ev.pubkey

\* The filters of ff at the positions in keep, in their order.
RECURSIVE Kept(_, _, _)
Kept(ff, keep, i) ==
    IF i > Len(ff) THEN <<>>
    ELSE (IF i \in keep THEN <<ff[i]>> ELSE <<>>) \o Kept(ff, keep, i + 1)

\* Server.AcceptReq: the filters the client may use, and whether the REQ is
\* accepted at all. Without auth every filter is allowed. With auth the
\* policy may drop filters or reject wholesale; which filters a policy
\* drops is left open, so every choice is an outcome.
AcceptReq(ff, pk) ==
    IF ~authRequired THEN {[allowed |-> ff, accept |-> TRUE]}
    ELSE {[allowed |-> Kept(ff, keep, 1),
           accept |-> (publicReadable \/ pk # 0) /\ keep # {}] :
             keep \in SUBSET (1..Len(ff))}

\* Server.AcceptEvent: if auth is required and the user is not authed, reject.
AcceptEvent(pk) == ~(authRequired /\ pk = 0)

\* -------------------------------------------------------------- HandleReq

Privileged(c, evs) ==
    IF authRequired
    THEN SelectSeq(evs, LAMBDA e : CheckPrivilege(authedPubkey[c], e))
    ELSE evs

\* The loop after EOSE that decides whether the subscription is cancelled:
\* a filter without ids keeps it, and so does a filter whose limit is above
\* the number of events of the last query.
RECURSIVE CancelLoop(_, _)
CancelLoop(fs, events) ==
    IF fs = <<>> THEN TRUE
    ELSE IF fs[1].ids = {} THEN FALSE
    ELSE IF fs[1].limit # <<>> /\ Len(events) < fs[1].limit[1] THEN FALSE
    ELSE CancelLoop(Tail(fs), events)

\* HandleReq up to the query loop: the auth challenge, AcceptReq.
ReqBegin(c, sub, ff) ==
    /\ pc[c] = "idle"
    /\ nReq < MaxReq
    /\ nReq' = nReq + 1
    /\ LET needAuth == authRequired /\ ~IsAuthed(c)
           pre == IF needAuth THEN <<AuthMsg, ClosedMsg(sub)>> ELSE <<>>
       IN  \E acc \in AcceptReq(ff, authedPubkey[c]) :
           IF needAuth /\ ~publicReadable
           THEN /\ out' = Write(c, pre \o <<NoticeMsg>>)
                /\ UNCHANGED <<pc, env, loc>>
           ELSE IF ~acc.accept
           THEN /\ out' = Write(c, pre \o <<ClosedMsg(sub)>>)
                /\ UNCHANGED <<pc, env, loc>>
           ELSE /\ out' = Write(c, pre)
                /\ env' = [env EXCEPT ![c] =
                              [label |-> "REQ", sub |-> sub, filters |-> ff]]
                /\ loc' = [loc EXCEPT ![c] =
                              [allowed |-> acc.allowed, i |-> 1,
                               events |-> <<>>, yielded |-> {}]]
                /\ pc' = [pc EXCEPT ![c] =
                             IF acc.allowed = <<>> THEN "req_eose"
                             ELSE "req_query"]
    /\ eosed' = {s \in eosed : ~(s.conn = c /\ s.sub = sub)}
    /\ UNCHANGED <<dbvars, gone, permitted>>
    /\ UNCHANGED <<appvars, clientvars>>
    /\ UNCHANGED <<store, nextSer, Map, deleted, authRequired,
                   publicReadable, authedPubkey, nEv, nClose>>

\* One turn of the query loop: a filter with limit 0 is skipped; otherwise
\* the store is queried, the events the client is not privileged to fetch
\* are dropped, and the rest are written to the socket. `yielded` notes
\* the ids written for this REQ so far.
ReqQuery(c) ==
    /\ pc[c] = "req_query"
    /\ LET f == loc[c].allowed[loc[c].i]
           skip == f.limit # <<>> /\ f.limit[1] = 0
           last == loc[c].i = Len(loc[c].allowed)
       IN  \E events \in {IF skip THEN loc[c].events
                           ELSE Privileged(c, QueryEvents(store, f))} :
           /\ out' = IF skip THEN out
                     ELSE Write(c, EventMsgs(env[c].sub, events, "stored"))
           /\ loc' = [loc EXCEPT
                         ![c].events = events, ![c].i = @ + 1,
                         ![c].yielded =
                             IF skip THEN @
                             ELSE @ \cup {events[k].id : k \in 1..Len(events)}]
           /\ pc' = [pc EXCEPT ![c] = IF last THEN "req_eose" ELSE "req_query"]
    /\ UNCHANGED <<dbvars, gone, permitted>>
    /\ UNCHANGED <<appvars, clientvars>>
    /\ UNCHANGED <<store, nextSer, Map, env, eosed, deleted, authRequired,
                   publicReadable, authedPubkey, nEv, nReq, nClose>>

\* eoseenvelope.NewFrom(env.Subscription).Write(a.Listener)
ReqEose(c) ==
    /\ pc[c] = "req_eose"
    /\ out' = Write(c, <<EoseMsg(env[c].sub)>>)
    /\ eosed' = {s \in eosed : ~(s.conn = c /\ s.sub = env[c].sub)}
                \cup {[conn |-> c, sub |-> env[c].sub,
                       filters |-> env[c].filters]}
    /\ pc' = [pc EXCEPT ![c] = "req_final"]
    /\ UNCHANGED <<dbvars, gone, permitted>>
    /\ UNCHANGED <<appvars, clientvars>>
    /\ UNCHANGED <<store, nextSer, Map, env, loc, deleted, authRequired,
                   publicReadable, authedPubkey, nEv, nReq, nClose>>

\* The end of HandleReq: the subscription is cancelled with CLOSED, or
\* handed to the publisher with the filters of the envelope.
ReqFinal(c) ==
    /\ pc[c] = "req_final"
    /\ IF CancelLoop(loc[c].allowed, loc[c].events)
       THEN /\ out' = Write(c, <<ClosedMsg(env[c].sub)>>)
            /\ eosed' = {s \in eosed : ~(s.conn = c /\ s.sub = env[c].sub)}
            /\ UNCHANGED <<Map, gone, permitted>>
       ELSE /\ Map' = Receive(Map, c, env[c].sub, env[c].filters)
            /\ gone' = gone \ {[conn |-> c, sub |-> env[c].sub]}
            /\ permitted' = [permitted EXCEPT ![<<c, env[c].sub>>] =
                                 loc[c].allowed]
            /\ UNCHANGED <<out, eosed>>
    /\ pc' = [pc EXCEPT ![c] = "idle"]
    /\ env' = [env EXCEPT ![c] = NoEnv]
    /\ loc' = [loc EXCEPT ![c] = NoLoc]
    /\ UNCHANGED dbvars
    /\ UNCHANGED <<appvars, clientvars>>
    /\ UNCHANGED <<store, nextSer, deleted, authRequired, publicReadable,
                   authedPubkey, nEv, nReq, nClose>>

\* A CLOSE envelope: S.Receive with Cancel set and an id removes the named
\* subscription.
HandleClose(c, id) ==
    /\ pc[c] = "idle"
    /\ nClose' = nClose + 1
    /\ Map' = removeSubscriberId(Map, c, id)
    /\ eosed' = {s \in eosed : ~(s.conn = c /\ s.sub = id)}
    /\ gone' = gone \cup {[conn |-> c, sub |-> id]}
    /\ permitted' = [permitted EXCEPT ![<<c, id>>] = <<>>]
    /\ UNCHANGED dbvars
    /\ UNCHANGED <<appvars, clientvars>>
    /\ UNCHANGED <<store, nextSer, out, pc, env, loc, deleted, authRequired,
                   publicReadable, authedPubkey, nEv, nReq>>

\* ------------------------------------------------------------ HandleEvent

\* The result of a stretch of HandleEvent: the store after it, the envelopes
\* it wrote, and whether the handler returned in it.
Res(st, msgs, ret) == [st |-> st, msgs |-> msgs, ret |-> ret]

\* An id check that lets every declared id through.
IdAlwaysAccepted(ev) == TRUE

\* bytes.Equal(env.GetIDBytes(), env.E.Id)
IdIsComputedCorrectly(ev) == GetIDBytes(ev) = ev.id

\* An author check that lets every author through.
AnyAuthorMayDelete(referenced, ev) == TRUE

\* bytes.Equal(referencedEvent.Pubkey, env.Pubkey)
AuthorMatches(referenced, ev) == referenced.pubkey = ev.pubkey

\* The e-tag case: the referenced event is fetched by id and deleted when
\* the deletion's author is its author. A value that is not hex (0) makes
\* the handler return.
ETagCase(st, ev, t) ==
    LET eventId == t.v[1]
        Found(referencedEvents) ==
            IF Len(referencedEvents) > 0
            THEN IF ~AuthorMatches(referencedEvents[1], ev)
                 THEN Res(st, <<OkMsg(ev.id, FALSE, "blocked")>>, TRUE)
                 ELSE Res(DeleteEvent(st, eventId), <<>>, FALSE)
            ELSE Res(st, <<>>, FALSE)
    IN  IF eventId = 0 THEN Res(st, <<>>, TRUE)
        ELSE Found(QueryEvents(st, Filter({eventId}, {}, {}, {}, <<>>)))

\* A timestamp comparison that lets every stored event through.
AnyAge(ev, v) == TRUE

\* env.E.CreatedAt.U64() >= v.CreatedAt.U64()
NotNewer(ev, v) == ev.created_at >= v.created_at

\* The loop over the targets an a tag found: a target that is itself a
\* deletion is answered with an error and still handled; a target of
\* another author ends the handler; any other target is deleted.
RECURSIVE TargetLoop(_, _, _, _)
TargetLoop(st, ev, targets, msgs) ==
    IF targets = <<>> THEN Res(st, msgs, FALSE)
    ELSE LET target == targets[1]
             m1 == IF target.kind = Deletion
                   THEN msgs \o <<OkMsg(ev.id, FALSE, "error")>>
                   ELSE msgs
         IN  IF ~NotNewer(ev, target)
             THEN TargetLoop(st, ev, Tail(targets), m1)
             ELSE IF target.pubkey # ev.pubkey
             THEN Res(st, m1 \o <<OkMsg(ev.id, FALSE, "error")>>, TRUE)
             ELSE TargetLoop(DeleteEvent(st, target.id), ev, Tail(targets), m1)

\* The a-tag case: kind:pubkey:d-tag. It answers the checks that fail and
\* returns; otherwise it queries the coordinate and runs the target loop
\* over the results that are not newer than the deletion.
ATagCase(st, ev, t) ==
    LET split == t.v
    IN  IF Len(split) # 3 THEN Res(st, <<>>, FALSE)
        ELSE IF split[3] = ev.id
        THEN Res(st, <<OkMsg(ev.id, FALSE, "blocked")>>, TRUE)
        ELSE IF split[2] = 0 \/ split[1] < 0
        THEN Res(st, <<OkMsg(ev.id, FALSE, "invalid")>>, TRUE)
        ELSE IF split[1] = Deletion
        THEN Res(st, <<OkMsg(ev.id, FALSE, "blocked")>>, TRUE)
        ELSE IF ~IsParameterizedReplaceable(split[1])
        THEN Res(st, <<OkMsg(ev.id, FALSE, "error")>>, TRUE)
        ELSE IF split[2] # ev.pubkey
        THEN Res(st, <<OkMsg(ev.id, FALSE, "blocked")>>, TRUE)
        ELSE LET res == QueryEvents(
                            st, Filter({}, {split[2]}, {split[1]}, {split[3]},
                                       <<>>))
                 resTmp == SelectSeq(res, LAMBDA v : NotNewer(ev, v))
             IN  TargetLoop(st, ev, resTmp, <<>>)

\* The loop over the tags of a kind-5 event.
RECURSIVE TagLoop(_, _, _, _)
TagLoop(st, ev, tags, msgs) ==
    IF tags = <<>> THEN Res(st, msgs, FALSE)
    ELSE LET t == tags[1]
             Go(r) == IF r.ret THEN Res(r.st, msgs \o r.msgs, TRUE)
                      ELSE TagLoop(r.st, ev, Tail(tags), msgs \o r.msgs)
         IN  Go(IF Len(t.v) < 1 THEN Res(st, <<>>, FALSE)
                ELSE IF t.k = "e" THEN ETagCase(st, ev, t)
                ELSE IF t.k = "a" THEN ATagCase(st, ev, t)
                ELSE Res(st, <<>>, FALSE))

\* The kind-5 branch: the tag loop, the OK envelope after it, and the check
\* for an earlier deletion of this id, which sits inside the branch and so
\* asks about a kind that is never anything but 5 there.
DeletionBranch(st, ev, ok) ==
    LET After(r) ==
            IF r.ret THEN r
            ELSE LET m1 == r.msgs \o <<OkMsg(ev.id, ok, "")>>
                     deletionEvents ==
                         {d \in r.st : /\ d.ev.kind = Deletion
                                       /\ \E i \in 1..Len(d.ev.tags) :
                                             /\ d.ev.tags[i].k = "e"
                                             /\ d.ev.tags[i].v = <<ev.id>>}
                 IN  IF ev.kind # Deletion /\ deletionEvents # {}
                     THEN Res(r.st,
                              m1 \o <<OkMsg(ev.id, FALSE, "blocked")>>, TRUE)
                     ELSE Res(r.st, m1, FALSE)
    IN  After(TagLoop(st, ev, ev.tags, <<>>))

\* HandleEvent up to the call of AddEvent: the id check, the signature
\* check (an error of Verify is answered and the handler goes on; a false
\* result is answered and the handler returns), the kind-5 branch.
BeforeAddEvent(st, ev) ==
    IF ~IdIsComputedCorrectly(ev)
    THEN Res(st, <<OkMsg(ev.id, FALSE, "invalid")>>, TRUE)
    ELSE LET Prepend(m0, r) == Res(r.st, m0 \o r.msgs, r.ret)
             Verified(v, m0) ==
                 IF ~v.err /\ ~v.valid THEN Res(st, m0, TRUE)
                 ELSE IF ev.kind = Deletion
                 THEN Prepend(m0, DeletionBranch(st, ev, v.valid))
                 ELSE Res(st, m0, FALSE)
             Answered(v) ==
                 Verified(v, IF v.err \/ ~v.valid
                             THEN <<OkMsg(ev.id, FALSE, "error")>> ELSE <<>>)
         IN  Answered(Verify(ev))

\* HandleEvent from its start to the call of AddEvent.
EvBegin(c, ev) ==
    /\ pc[c] = "idle"
    /\ nEv' = nEv + 1
    /\ \E r \in {BeforeAddEvent(store, ev)} :
           /\ store' = r.st
           /\ deleted' = IF Verify(ev).valid
                         THEN deleted \cup (StoredIds(store) \ StoredIds(r.st))
                         ELSE deleted
           /\ out' = Write(c, r.msgs)
           /\ IF r.ret
              THEN UNCHANGED <<pc, env, loc>>
              ELSE /\ pc' = [pc EXCEPT ![c] = "ev_add"]
                   /\ env' = [env EXCEPT ![c] = [label |-> "EVENT", ev |-> ev]]
                   /\ loc' = [loc EXCEPT ![c] = [ok |-> FALSE, owed |-> {}]]
    /\ UNCHANGED <<dbvars, gone, permitted>>
    /\ UNCHANGED <<appvars, clientvars>>
    /\ UNCHANGED <<nextSer, Map, eosed, authRequired, publicReadable,
                   authedPubkey, nReq, nClose>>

\* Server.AddEvent, first half: the event is refused when the connection
\* may not write; an ephemeral event is not stored; any other event is
\* saved. `owed` notes the open subscriptions of other connections that
\* match an accepted event.
EvAdd(c) ==
    /\ pc[c] = "ev_add"
    /\ LET ev == env[c].ev
           refused == \/ ~AcceptEvent(authedPubkey[c])
                      \/ ~IsEphemeral(ev.kind) /\ SaveRefused(store, ev)
           owed == {s \in eosed : s.conn # c /\ Match(s.filters, ev)}
       IN  IF refused
           THEN /\ pc' = [pc EXCEPT ![c] = "ev_ok"]
                /\ UNCHANGED <<store, nextSer, loc>>
           ELSE /\ store' = IF IsEphemeral(ev.kind) THEN store
                            ELSE SaveEvent(store, nextSer, ev)
                /\ nextSer' = IF IsEphemeral(ev.kind) THEN nextSer
                              ELSE nextSer + 1
                /\ loc' = [loc EXCEPT ![c] = [ok |-> TRUE, owed |-> owed]]
                /\ pc' = [pc EXCEPT ![c] = "ev_deliver"]
    /\ UNCHANGED <<dbvars, gone, permitted>>
    /\ UNCHANGED <<appvars, clientvars>>
    /\ UNCHANGED <<Map, out, env, eosed, deleted, authRequired,
                   publicReadable, authedPubkey, nEv, nReq, nClose>>

\* Server.AddEvent, second half: the publisher delivers the event. The
\* write to a listener whose socket takes no more frames fails, and Deliver
\* goes on with the next subscription.
EvDeliver(c) ==
    /\ pc[c] = "ev_deliver"
    /\ \E ords \in [Conns -> Orders(SubIds)] :
          \E d \in {Deliver(Map, out, ords, env[c].ev)} :
              out' = [w \in Conns |-> IF pc[w] = "stalled" THEN out[w]
                                      ELSE d[w]]
    /\ pc' = [pc EXCEPT ![c] = "ev_ok"]
    /\ UNCHANGED <<dbvars, gone, permitted>>
    /\ UNCHANGED <<appvars, clientvars>>
    /\ UNCHANGED <<store, nextSer, Map, env, loc, eosed, deleted,
                   authRequired, publicReadable, authedPubkey, nEv, nReq,
                   nClose>>

\* okenvelope.NewFrom(env.E.Id, ok).Write(a.Listener) after AddEvent.
EvOk(c) ==
    /\ pc[c] = "ev_ok"
    /\ out' = Write(c, <<OkMsg(env[c].ev.id, loc[c].ok, "")>>)
    /\ pc' = [pc EXCEPT ![c] = "idle"]
    /\ env' = [env EXCEPT ![c] = NoEnv]
    /\ loc' = [loc EXCEPT ![c] = NoLoc]
    /\ UNCHANGED <<dbvars, gone, permitted>>
    /\ UNCHANGED <<appvars, clientvars>>
    /\ UNCHANGED <<store, nextSer, Map, eosed, deleted, authRequired,
                   publicReadable, authedPubkey, nEv, nReq, nClose>>

\* ------------------------------------------------------------- the inputs

\* A text note by each author.
EvA == Sign(P1, 1, TextNote, <<>>, 0)
EvB == Sign(P2, 1, TextNote, <<>>, 0)

\* Two versions of the profile of P1, the second one newer.
EvR1 == Sign(P1, 1, ProfileMetadata, <<>>, 0)
EvR2 == Sign(P1, 2, ProfileMetadata, <<>>, 1)

\* A parameterized replaceable event of P1 with d tag 1.
EvPR == Sign(P1, 1, ParamKind, <<Tag("d", <<1>>)>>, 0)

\* Deletions: of EvA by its author and by the other author; of EvB and
\* then EvA by P2; of the coordinate of EvPR by its author and by P2.
DelOwn == Sign(P1, 2, Deletion, <<Tag("e", <<EvA.id>>)>>, 0)
DelOther == Sign(P2, 2, Deletion, <<Tag("e", <<EvA.id>>)>>, 0)
DelMixed ==
    Sign(P2, 2, Deletion, <<Tag("e", <<EvB.id>>), Tag("e", <<EvA.id>>)>>, 0)
DelCoord == Sign(P1, 2, Deletion, <<Tag("a", <<ParamKind, P1, 1>>)>>, 0)
DelCoordOther == Sign(P2, 2, Deletion, <<Tag("a", <<ParamKind, P1, 1>>)>>, 0)

\* A note that names P1 as its author and is signed by P2.
BadSig == [Sign(P1, 2, TextNote, <<>>, 1) EXCEPT !.sig.signer = P2]

\* A note whose signature does not parse.
ErrSig == [Sign(P2, 2, TextNote, <<>>, 1) EXCEPT !.sig.form = "malformed"]

\* A deletion of EvA that names P1 as its author, with a signature that
\* does not parse.
DelErrSig ==
    [Sign(P1, 2, Deletion, <<Tag("e", <<EvA.id>>)>>, 1)
        EXCEPT !.sig.form = "malformed"]

\* A note whose declared id is not the hash of its canonical form; the
\* signature is over the declared id.
BadId ==
    LET e == Sign(P2, 2, TextNote, <<>>, 2)
    IN  [e EXCEPT !.id = e.id + 1, !.sig.msg = e.id + 1]

Submissions ==
    {EvA, EvB, EvR1, EvR2, EvPR, DelOwn, DelOther, DelMixed, DelCoord,
     DelCoordOther, BadSig, ErrSig, DelErrSig, BadId}

\* The submissions of the runs that mix REQ and EVENT.
LiveSubmissions == {EvA, EvB}

NoLimit == <<>>

FKind1 == Filter({}, {}, {TextNote}, {}, NoLimit)
FAuthor1 == Filter({}, {P1}, {}, {}, NoLimit)
FIdA == Filter({EvA.id}, {}, {}, {}, NoLimit)
FIdALimit == Filter({EvA.id}, {}, {}, {}, <<2>>)

\* The filter lists of the REQ envelopes.
ReqFilters == {<<FKind1>>, <<FIdA>>, <<FIdALimit>>, <<FKind1, FAuthor1>>}

\* ------------------------------------------------------ the specification

Init ==
    /\ store = {}
    /\ nextSer = 1
    /\ Map = <<>>
    /\ out = [c \in Conns |-> <<>>]
    /\ pc = [c \in Conns |-> "idle"]
    /\ env = [c \in Conns |-> NoEnv]
    /\ loc = [c \in Conns |-> NoLoc]
    /\ eosed = {}
    /\ deleted = {}
    /\ authRequired = FALSE
    /\ publicReadable = TRUE
    /\ authedPubkey = [c \in Conns |-> 0]
    /\ nEv = 0
    /\ nReq = 0
    /\ nClose = 0
    /\ asked = [op |-> "none", f |-> Filter({}, {}, {}, {}, <<>>), ids |-> <<>>]
    /\ got = <<>>
    /\ gone = {}
    /\ permitted = [k \in Conns \X SubIds |-> <<>>]
    /\ lists = NoLists
    /\ Subscription = NewSub
    /\ gor = NewGor
    /\ recv = NoRecv

Next ==
    \E c \in Conns :
        \/ \E ev \in LiveSubmissions : nEv < MaxEv /\ EvBegin(c, ev)
        \/ EvAdd(c)
        \/ EvDeliver(c)
        \/ EvOk(c)
        \/ \E sub \in SubIds, ff \in ReqFilters : ReqBegin(c, sub, ff)
        \/ ReqQuery(c)
        \/ ReqEose(c)
        \/ ReqFinal(c)
        \/ \E sub \in SubIds : nClose < MaxClose /\ HandleClose(c, sub)

Spec == Init /\ [][Next]_vars

\* Ingest alone: EVENT submissions of every kind, one after the other on
\* one connection.
NextIngest ==
    \E c \in {CHOOSE x \in Conns : TRUE} :
        \/ \E ev \in Submissions : nEv < MaxIngest /\ EvBegin(c, ev)
        \/ EvAdd(c)
        \/ EvDeliver(c)
        \/ EvOk(c)

SpecIngest == Init /\ [][NextIngest]_vars

\* ------------------------------------------------- the store, used directly

\* How many events the database test saves into one store.
MaxSave == 3

\* D.GetSerialById: the serial stored under the id, or an error.
GetSerialById(st, id) ==
    IF \E r \in st : r.ev.id = id
    THEN [err |-> FALSE, ser |-> (CHOOSE r \in st : r.ev.id = id).ser]
    ELSE [err |-> TRUE, ser |-> 0]

\* D.GetFullIdPubkeyBySerial: the IdPkTs found under the serial, as a
\* sequence of one; no entry (nil) is the empty sequence.
GetFullIdPubkeyBySerial(st, ser) ==
    IF \E r \in st : r.ser = ser
    THEN LET r == CHOOSE x \in st : x.ser = ser
         IN  <<[Id |-> r.ev.id, Pub |-> r.ev.pubkey, Ts |-> r.ev.created_at,
                Ser |-> r.ser]>>
    ELSE <<>>

\* D.QueryForIds: the IdPkTs of the events a filter without ids selects,
\* newest first.
RECURSIVE IdPkTsOf(_, _)
IdPkTsOf(st, evs) ==
    IF evs = <<>> THEN <<>>
    ELSE GetFullIdPubkeyBySerial(st, GetSerialById(st, evs[1].id).ser)
            \o IdPkTsOf(st, Tail(evs))

QueryForIds(st, f) == IdPkTsOf(st, QueryEvents(st, f))

\* The first loop of D.QueryForSerials: one serial per id of the list, in
\* the order of the list; an id without a serial ends the query in an error.
RECURSIVE Founds(_, _)
Founds(st, ids) ==
    IF ids = <<>> THEN [err |-> FALSE, sers |-> <<>>]
    ELSE LET r == GetSerialById(st, ids[1])
             rest == Founds(st, Tail(ids))
         IN  IF r.err \/ rest.err THEN [err |-> TRUE, sers |-> <<>>]
             ELSE [err |-> FALSE, sers |-> <<r.ser>> \o rest.sers]

\* The second loop: the IdPkTs of every serial found.
RECURSIVE Fetched(_, _)
Fetched(st, sers) ==
    IF sers = <<>> THEN <<>>
    ELSE GetFullIdPubkeyBySerial(st, sers[1]) \o Fetched(st, Tail(sers))

\* A QueryForSerials that leaves the entries in the order of the id list.
InListOrder(q) == {q}

\* sort.Slice by Ts, greatest first. The sort is not stable: every order of
\* the entries in which no entry precedes one of a greater Ts is possible.
SortedByTs(q) ==
    {[i \in 1..Len(q) |-> q[p[i]]] :
        p \in {x \in [1..Len(q) -> 1..Len(q)] :
                 /\ \A i, j \in 1..Len(q) : x[i] = x[j] => i = j
                 /\ \A i, j \in 1..Len(q) : i < j => q[x[i]].Ts >= q[x[j]].Ts}}

\* D.QueryForSerials, for the filter `f` whose id list is `ids`: the results
\* it may return, each a list of serials.
QueryForSerials(st, ids, f) ==
    IF Len(ids) > 0
    THEN IF Founds(st, ids).err THEN {<<>>}
         ELSE {[i \in 1..Len(q) |-> q[i].Ser] :
                 q \in SortedByTs(Fetched(st, Founds(st, ids).sers))}
    ELSE LET q == QueryForIds(st, f) IN {[i \in 1..Len(q) |-> q[i].Ser]}

\* A newer version of EvPR, and the deletions the database tests save: of
\* the older profile and of EvPR by e tag, each by its author.
EvPR2 == Sign(P1, 3, ParamKind, <<Tag("d", <<1>>)>>, 1)
DelR1 == Sign(P1, 3, Deletion, <<Tag("e", <<EvR1.id>>)>>, 0)
DelPR == Sign(P1, 2, Deletion, <<Tag("e", <<EvPR.id>>)>>, 0)

Saved == {EvA, EvB, EvR1, EvR2, EvPR, EvPR2, DelR1, DelPR, DelCoord}

FNone == Filter({}, {}, {}, {}, NoLimit)
FProfile1 == Filter({}, {P1}, {ProfileMetadata}, {}, NoLimit)
FParam1 == Filter({}, {P1}, {ParamKind}, {}, NoLimit)
FIdOf(ev) == Filter({ev.id}, {}, {}, {}, NoLimit)

Queries ==
    {FNone, FKind1, FProfile1, FParam1, FIdOf(EvA), FIdOf(EvR1), FIdOf(EvPR)}

\* The id lists of the filters given to QueryForSerials.
IdLists ==
    {<<>>, <<EvA.id>>, <<EvA.id, EvA.id>>, <<EvA.id, EvB.id>>,
     <<EvR1.id, EvR2.id>>}

NoQuery == [op |-> "none", f |-> FNone, ids |-> <<>>]

\* db.SaveEvent(ctx, ev)
DbSave(ev) ==
    /\ nEv < MaxSave
    /\ nEv' = nEv + 1
    /\ store' = SaveEvent(store, nextSer, ev)
    /\ nextSer' = IF SaveRefused(store, ev) THEN nextSer ELSE nextSer + 1
    /\ asked' = [op |-> "save", f |-> FNone, ids |-> <<ev.id>>]
    /\ got' = <<>>
    /\ UNCHANGED <<appvars, clientvars>>
    /\ UNCHANGED <<Map, out, pc, env, loc, eosed, deleted, authRequired,
                   publicReadable, authedPubkey, nReq, nClose, gone,
                   permitted>>

\* db.QueryEvents(ctx, f)
DbQuery(f) ==
    /\ asked' = [op |-> "query", f |-> f, ids |-> <<>>]
    /\ got' = QueryEvents(store, f)
    /\ UNCHANGED <<appvars, clientvars>>
    /\ UNCHANGED <<store, nextSer, Map, out, pc, env, loc, eosed, deleted,
                   authRequired, publicReadable, authedPubkey, nEv, nReq,
                   nClose, gone, permitted>>

\* db.QueryForSerials(ctx, f)
DbQueryForSerials(ids) ==
    /\ asked' = [op |-> "serials", f |-> FNone, ids |-> ids]
    /\ got' \in QueryForSerials(store, ids, FNone)
    /\ UNCHANGED <<appvars, clientvars>>
    /\ UNCHANGED <<store, nextSer, Map, out, pc, env, loc, eosed, deleted,
                   authRequired, publicReadable, authedPubkey, nEv, nReq,
                   nClose, gone, permitted>>

NextStore ==
    \/ \E ev \in Saved : DbSave(ev)
    \/ \E f \in Queries : DbQuery(f)
    \/ \E ids \in IdLists : DbQueryForSerials(ids)

SpecStore == Init /\ [][NextStore]_vars

\* ------------------------------------------------- a relay that requires auth

\* A valid AUTH response: the connection is authenticated as pk from then on.
HandleAuth(c, pk) ==
    /\ pc[c] = "idle"
    /\ authedPubkey[c] = 0
    /\ authedPubkey' = [authedPubkey EXCEPT ![c] = pk]
    /\ UNCHANGED <<appvars, clientvars>>
    /\ UNCHANGED <<store, nextSer, Map, out, pc, env, loc, eosed, deleted,
                   authRequired, publicReadable, nEv, nReq, nClose, dbvars,
                   gone, permitted>>

\* The events submitted to the relay that requires auth.
AuthSubmissions == {EvA, EvB, EvR1}

\* AuthRequired() is set; PublicReadable() is either way.
InitAuth ==
    /\ store = {}
    /\ nextSer = 1
    /\ Map = <<>>
    /\ out = [c \in Conns |-> <<>>]
    /\ pc = [c \in Conns |-> "idle"]
    /\ env = [c \in Conns |-> NoEnv]
    /\ loc = [c \in Conns |-> NoLoc]
    /\ eosed = {}
    /\ deleted = {}
    /\ authRequired = TRUE
    /\ publicReadable \in BOOLEAN
    /\ authedPubkey = [c \in Conns |-> 0]
    /\ nEv = 0
    /\ nReq = 0
    /\ nClose = 0
    /\ asked = NoQuery
    /\ got = <<>>
    /\ gone = {}
    /\ permitted = [k \in Conns \X SubIds |-> <<>>]
    /\ lists = NoLists
    /\ Subscription = NewSub
    /\ gor = NewGor
    /\ recv = NoRecv

\* One connection to that relay: AUTH, REQ and EVENT envelopes.
NextAuth ==
    \E c \in {CHOOSE x \in Conns : TRUE} :
        \/ \E pk \in {P1, P2} : HandleAuth(c, pk)
        \/ \E ev \in AuthSubmissions : nEv < MaxEv /\ EvBegin(c, ev)
        \/ EvAdd(c)
        \/ EvDeliver(c)
        \/ EvOk(c)
        \/ \E sub \in SubIds, ff \in ReqFilters : ReqBegin(c, sub, ff)
        \/ ReqQuery(c)
        \/ ReqEose(c)
        \/ ReqFinal(c)

SpecAuth == InitAuth /\ [][NextAuth]_vars

\* ------------------------------------------- subscriptions that come and go

\* How many CLOSE envelopes the connections send in a run of SpecSubs.
MaxCloseSubs == 2

\* The connection is closed: S.Receive with Cancel set and no id removes the
\* listener with all its subscriptions, and its reader task ends.
ConnClose(c) ==
    /\ pc[c] = "idle"
    /\ pc' = [pc EXCEPT ![c] = "closed"]
    /\ Map' = removeSubscriber(Map, c)
    /\ eosed' = {s \in eosed : s.conn # c}
    /\ gone' = gone \cup {[conn |-> c, sub |-> id] : id \in SubIds}
    /\ permitted' = [k \in Conns \X SubIds |->
                        IF k[1] = c THEN <<>> ELSE permitted[k]]
    /\ UNCHANGED <<appvars, clientvars>>
    /\ UNCHANGED <<store, nextSer, out, env, loc, deleted, authRequired,
                   publicReadable, authedPubkey, nEv, nReq, nClose, dbvars>>

\* The connection that submits the events of these runs.
Publisher == CHOOSE c \in Conns : \A o \in Conns : o <= c

\* REQ with one filter, CLOSE and connection close on every connection,
\* EVENT on one.
NextSubs ==
    \E c \in Conns :
        \/ \E sub \in SubIds : ReqBegin(c, sub, <<FKind1>>)
        \/ ReqQuery(c)
        \/ ReqEose(c)
        \/ ReqFinal(c)
        \/ \E sub \in SubIds : nClose < MaxCloseSubs /\ HandleClose(c, sub)
        \/ ConnClose(c)
        \/ nEv < MaxEv /\ c = Publisher /\ EvBegin(c, EvA)
        \/ EvAdd(c)
        \/ EvDeliver(c)
        \/ EvOk(c)

SpecSubs == Init /\ [][NextSubs]_vars

\* ------------------------------------------------------ concurrent ingest

\* How many EVENT envelopes the connections send in a run of SpecFanout.
MaxFanout == 2

\* One subscription for text notes, and text notes submitted on every
\* connection, each connection handling its envelope on its own task.
NextFanout ==
    \E c \in Conns :
        \/ \E sub \in SubIds : ReqBegin(c, sub, <<FKind1>>)
        \/ ReqQuery(c)
        \/ ReqEose(c)
        \/ ReqFinal(c)
        \/ \E ev \in LiveSubmissions : nEv < MaxFanout /\ EvBegin(c, ev)
        \/ EvAdd(c)
        \/ EvDeliver(c)
        \/ EvOk(c)

SpecFanout == Init /\ [][NextFanout]_vars

\* ------------------------------------------------------- a slow subscriber

\* The socket of the connection takes no more frames: every write to it
\* fails from now on, and its reader task reads nothing more.
Stall(c) ==
    /\ pc[c] = "idle"
    /\ pc' = [pc EXCEPT ![c] = "stalled"]
    /\ UNCHANGED <<appvars, clientvars>>
    /\ UNCHANGED <<store, nextSer, Map, out, env, loc, eosed, deleted,
                   authRequired, publicReadable, authedPubkey, nEv, nReq,
                   nClose, dbvars, gone, permitted>>

\* Subscriptions on every connection, any of which may stall, and events
\* submitted on one connection.
NextPressure ==
    \E c \in Conns :
        \/ \E sub \in SubIds : ReqBegin(c, sub, <<FKind1>>)
        \/ ReqQuery(c)
        \/ ReqEose(c)
        \/ ReqFinal(c)
        \/ Stall(c)
        \/ \E ev \in LiveSubmissions :
              nEv < MaxFanout /\ c = Publisher /\ EvBegin(c, ev)
        \/ EvAdd(c)
        \/ EvDeliver(c)
        \/ EvOk(c)

SpecPressure == Init /\ [][NextPressure]_vars

\* ------------------------------------------------------------------ export

\* schnorr.SignatureSize, counted in cells of the binary form of this model,
\* in which an id, a pubkey and a varint take one cell each.
SignatureSize == 3

FormCode(form) == IF form = "ok" THEN 1 ELSE 2

FormName(n) == IF n = 1 THEN "ok" ELSE "malformed"

KeyName(n) == CASE n = 1 -> "e" [] n = 2 -> "a" [] n = 3 -> "d" [] OTHER -> "x"

\* The bytes of a content: none for the empty content 0.
ContentBytes(content) == IF content = 0 THEN <<>> ELSE <<content>>

\* A decoder that loses the content.
NoContent(b) == 0

\* ev.Content as the model holds it.
ContentOf(b) == IF b = <<>> THEN 0 ELSE b[1]

\* The elements of one tag: varint length, then the data.
RECURSIVE FieldsBinary(_)
FieldsBinary(fs) ==
    IF fs = <<>> THEN <<>> ELSE <<1, fs[1]>> \o FieldsBinary(Tail(fs))

\* The tags: for each, varint element count and the elements.
RECURSIVE TagsBinary(_)
TagsBinary(ts) ==
    IF ts = <<>> THEN <<>>
    ELSE <<1 + Len(ts[1].v)>>
         \o FieldsBinary(<<KeyCode(ts[1].k)>> \o ts[1].v)
         \o TagsBinary(Tail(ts))

\* E.MarshalBinary
MarshalBinary(ev) ==
    <<ev.id, ev.pubkey, ev.created_at, ev.kind, Len(ev.tags)>>
    \o TagsBinary(ev.tags)
    \o <<Len(ContentBytes(ev.content))>> \o ContentBytes(ev.content)
    \o <<FormCode(ev.sig.form), ev.sig.signer, ev.sig.msg>>

Zeros(n) == [i \in 1..n |-> 0]

\* bytes.Buffer.Read into a slice of n cells: io.EOF only when the buffer is
\* empty and n > 0; otherwise it copies what there is, without an error, and
\* the rest of the slice stays zero.
BufferRead(buf, n) ==
    IF buf = <<>>
    THEN [err |-> n > 0, v |-> Zeros(n), rest |-> <<>>]
    ELSE IF n <= Len(buf)
    THEN [err |-> FALSE, v |-> SubSeq(buf, 1, n),
          rest |-> SubSeq(buf, n + 1, Len(buf))]
    ELSE [err |-> FALSE, v |-> buf \o Zeros(n - Len(buf)), rest |-> <<>>]

\* varint.Decode: the error of the reader when there is nothing to read.
VarintDecode(buf) ==
    IF buf = <<>> THEN [err |-> TRUE, v |-> 0, rest |-> <<>>]
    ELSE [err |-> FALSE, v |-> buf[1], rest |-> Tail(buf)]

\* The inner loop of UnmarshalBinary: n elements of one tag.
RECURSIVE ReadFields(_, _, _)
ReadFields(buf, n, acc) ==
    IF n = 0 THEN [err |-> FALSE, v |-> acc, rest |-> buf]
    ELSE LET Data(d) ==
                 IF d.err THEN [err |-> TRUE, v |-> acc, rest |-> d.rest]
                 ELSE ReadFields(d.rest, n - 1, Append(acc, ContentOf(d.v)))
             Length(l) ==
                 IF l.err THEN [err |-> TRUE, v |-> acc, rest |-> l.rest]
                 ELSE Data(BufferRead(l.rest, l.v))
         IN  Length(VarintDecode(buf))

\* The outer loop of UnmarshalBinary: n tags.
RECURSIVE ReadTags(_, _, _)
ReadTags(buf, n, acc) ==
    IF n = 0 THEN [err |-> FALSE, v |-> acc, rest |-> buf]
    ELSE LET Fields(t) ==
                 IF t.err THEN [err |-> TRUE, v |-> acc, rest |-> t.rest]
                 ELSE ReadTags(
                          t.rest, n - 1,
                          Append(acc, IF t.v = <<>> THEN Tag("x", <<>>)
                                      ELSE Tag(KeyName(t.v[1]), Tail(t.v))))
             Count(nField) ==
                 IF nField.err
                 THEN [err |-> TRUE, v |-> acc, rest |-> nField.rest]
                 ELSE Fields(ReadFields(nField.rest, nField.v, <<>>))
         IN  Count(VarintDecode(buf))

\* E.UnmarshalBinary from a reader that holds buf: it returns at the first
\* read that fails; rest is what the reader still holds.
UnmarshalBinary(buf) ==
    LET Fail(rest) == [err |-> TRUE, ev |-> <<>>, rest |-> rest]
        Sig(id, pk, ca, k, tags, content, r) ==
            IF r.err THEN Fail(r.rest)
            ELSE [err |-> FALSE,
                  ev |-> [id |-> id, pubkey |-> pk, created_at |-> ca,
                          kind |-> k, tags |-> tags, content |-> content,
                          sig |-> [form |-> FormName(r.v[1]),
                                   signer |-> r.v[2], msg |-> r.v[3]]],
                  rest |-> r.rest]
        Content(id, pk, ca, k, tags, r) ==
            IF r.err THEN Fail(r.rest)
            ELSE Sig(id, pk, ca, k, tags, ContentOf(r.v),
                     BufferRead(r.rest, SignatureSize))
        CLen(id, pk, ca, k, tags, r) ==
            IF r.err THEN Fail(r.rest)
            ELSE Content(id, pk, ca, k, tags, BufferRead(r.rest, r.v))
        Tags(id, pk, ca, k, r) ==
            IF r.err THEN Fail(r.rest)
            ELSE CLen(id, pk, ca, k, r.v, VarintDecode(r.rest))
        NTags(id, pk, ca, k, r) ==
            IF r.err THEN Fail(r.rest)
            ELSE Tags(id, pk, ca, k, ReadTags(r.rest, r.v, <<>>))
        Kind(id, pk, ca, r) ==
            IF r.err THEN Fail(r.rest)
            ELSE NTags(id, pk, ca, r.v, VarintDecode(r.rest))
        CreatedAt(id, pk, r) ==
            IF r.err THEN Fail(r.rest)
            ELSE Kind(id, pk, r.v, VarintDecode(r.rest))
        Pubkey(id, r) ==
            IF r.err THEN Fail(r.rest)
            ELSE CreatedAt(id, r.v[1], VarintDecode(r.rest))
        Id(r) ==
            IF r.err THEN Fail(r.rest)
            ELSE Pubkey(r.v[1], BufferRead(r.rest, 1))
    IN  Id(BufferRead(buf, 1))

\* E.Serialize: the object of minified JSON, its members in their order.
Serialize(ev) ==
    <<ev.id, ev.pubkey, ev.created_at, ev.kind, ev.tags, ev.content, ev.sig>>

\* The records under the prefix of the events, in key order.
RECURSIVE BySerial(_)
BySerial(S) ==
    IF S = {} THEN <<>>
    ELSE LET r == CHOOSE x \in S : \A y \in S : x.ser <= y.ser
         IN  <<r>> \o BySerial(S \ {r})

\* The value of each record in key order; the record with serial bad holds
\* only the first keep cells of its value.
RECURSIVE EventValues(_, _, _)
EventValues(recs, bad, keep) ==
    IF recs = <<>> THEN <<>>
    ELSE <<IF recs[1].ser = bad
           THEN SubSeq(MarshalBinary(recs[1].ev), 1, keep)
           ELSE MarshalBinary(recs[1].ev)>>
         \o EventValues(Tail(recs), bad, keep)

\* The entries of the author index under the prefix of pubkey, in key order
\* (created_at, then serial).
RECURSIVE PubkeyIndex(_)
PubkeyIndex(S) ==
    IF S = {} THEN <<>>
    ELSE LET r == CHOOSE x \in S : \A y \in S : x = y \/ Newer(y, x)
         IN  <<r>> \o PubkeyIndex(S \ {r})

\* The value of each entry of the author index: the entry is its key, and
\* its value is empty.
RECURSIVE PubkeyValues(_)
PubkeyValues(entries) ==
    IF entries = <<>> THEN <<>>
    ELSE <<<<>>>> \o PubkeyValues(Tail(entries))

\* The loop of Export over the items of an iterator: the value is written to
\* evBuf and decoded from it; a value that does not decode is passed over
\* with evBuf as the decoder left it; a decoded event is written as a line
\* and evBuf is reset.
RECURSIVE ExportLoop(_, _, _)
ExportLoop(vals, evBuf, lines) ==
    IF vals = <<>> THEN [lines |-> lines, evBuf |-> evBuf]
    ELSE LET Decoded(r) ==
                 IF r.err THEN ExportLoop(Tail(vals), r.rest, lines)
                 ELSE ExportLoop(Tail(vals), <<>>,
                                 Append(lines, Serialize(r.ev)))
         IN  Decoded(UnmarshalBinary(evBuf \o vals[1]))

\* The loop of Export over the pubkeys, each with an iterator of its own
\* and all with the one evBuf.
RECURSIVE ExportPubkeys(_, _, _, _)
ExportPubkeys(st, pubkeys, evBuf, lines) ==
    IF pubkeys = <<>> THEN lines
    ELSE LET Next1(r) == ExportPubkeys(st, Tail(pubkeys), r.evBuf, r.lines)
         IN  Next1(ExportLoop(
                 PubkeyValues(PubkeyIndex(
                     {x \in st : x.ev.pubkey = pubkeys[1]})),
                 evBuf, lines))

\* D.Export
Export(st, pubkeys, bad, keep) ==
    IF Len(pubkeys) = 0
    THEN ExportLoop(EventValues(BySerial(st), bad, keep), <<>>, <<>>).lines
    ELSE ExportPubkeys(st, pubkeys, <<>>, <<>>)

\* The lists of pubkeys Export is called with.
PubkeyLists == {<<>>, <<P1>>, <<P2>>, <<P1, P2>>}

\* db.Export(ctx, w, pubkeys...), with the lines written to w in got. The
\* record with serial bad (none when 0) is damaged on disk: keep cells of
\* its value are left.
DbExport(pubkeys, bad, keep) ==
    /\ bad = 0 \/ \E r \in store : /\ r.ser = bad
                                   /\ keep < Len(MarshalBinary(r.ev))
    /\ bad = 0 => keep = 0
    /\ pubkeys # <<>> => bad = 0
    /\ asked' = [op |-> "export", f |-> FNone, ids |-> pubkeys,
                 bad |-> bad, keep |-> keep]
    /\ got' = Export(store, pubkeys, bad, keep)
    /\ UNCHANGED <<appvars, clientvars>>
    /\ UNCHANGED <<store, nextSer, Map, out, pc, env, loc, eosed, deleted,
                   authRequired, publicReadable, authedPubkey, nEv, nReq,
                   nClose, gone, permitted>>

\* The events saved before an export: with and without tags and content.
Exported == {EvA, EvB, EvPR2, DelCoord}

\* The longest binary form of these.
MaxBinary ==
    CHOOSE n \in {Len(MarshalBinary(ev)) : ev \in Exported} :
        \A ev \in Exported : Len(MarshalBinary(ev)) <= n

NextExport ==
    \/ \E ev \in Exported : DbSave(ev)
    \/ \E pubkeys \in PubkeyLists : \E bad \in 0..MaxSave :
           \E keep \in 0..(MaxBinary - 1) : DbExport(pubkeys, bad, keep)

SpecExport == Init /\ [][NextExport]_vars

\* ------------------------------------------------------ deletion requests

\* Deletions by P2 that name the note of P1 first and its own note second;
\* by P1 of its own earlier deletion; and with an e tag whose value is not
\* hex.
DelMixedRev ==
    Sign(P2, 2, Deletion, <<Tag("e", <<EvA.id>>), Tag("e", <<EvB.id>>)>>, 0)
DelOfDel == Sign(P1, 3, Deletion, <<Tag("e", <<DelOwn.id>>)>>, 0)
DelBadHex == Sign(P1, 2, Deletion, <<Tag("e", <<0>>)>>, 0)

\* Events and kind-5 events, all with the right id and a valid signature.
DeleteSubmissions ==
    {EvA, EvB, EvPR, EvPR2, DelOwn, DelOther, DelMixed, DelMixedRev, DelCoord,
     DelOfDel, DelBadHex}

\* HandleEvent on a frame that env.Unmarshal rejects: it returns, and its
\* result msg, which nothing assigns, is nil.
EvMalformed(c) ==
    /\ pc[c] = "idle"
    /\ nEv' = nEv + 1
    /\ UNCHANGED <<dbvars, gone, permitted>>
    /\ UNCHANGED <<appvars, clientvars>>
    /\ UNCHANGED <<store, nextSer, Map, out, pc, env, loc, eosed, deleted,
                   authRequired, publicReadable, authedPubkey, nReq, nClose>>

\* EVENT submissions, one after the other on one connection.
NextDelete ==
    \E c \in {CHOOSE x \in Conns : TRUE} :
        \/ \E ev \in DeleteSubmissions : nEv < MaxIngest /\ EvBegin(c, ev)
        \/ nEv < MaxIngest /\ EvMalformed(c)
        \/ EvAdd(c)
        \/ EvDeliver(c)
        \/ EvOk(c)

SpecDelete == Init /\ [][NextDelete]_vars

\* ------------------------------------- deletion requests without authentication

\* What the connections submit to the relay that requires auth: two events
\* of P1 and P1's deletions of them.
AuthDeleteSubmissions == {EvA, EvPR, DelOwn, DelCoord}

\* Two connections to the relay that requires auth: the publisher
\* authenticates as P1, the other connection never authenticates; both
\* submit events.
NextAuthDelete ==
    \E c \in Conns :
        \/ c = Publisher /\ HandleAuth(c, P1)
        \/ \E ev \in AuthDeleteSubmissions : nEv < MaxIngest /\ EvBegin(c, ev)
        \/ EvAdd(c)
        \/ EvDeliver(c)
        \/ EvOk(c)

SpecAuthDelete == InitAuth /\ [][NextAuthDelete]_vars

\* ---------------------------------------------- privileged events and fan-out

\* A direct message by P2 that names no recipient, and a filter for the
\* kind.
EvDM == Sign(P2, 1, 4, <<>>, 0)
FKind4 == Filter({}, {}, {4}, {}, NoLimit)

\* What the publisher submits to the relay that requires auth.
PrivilegeSubmissions == {EvB, EvDM}

\* Two connections to the relay that requires auth: the publisher
\* authenticates as P2 and submits events; the other connection
\* authenticates as P1 and subscribes to direct messages.
NextPrivilege ==
    \E c \in Conns :
        \/ HandleAuth(c, IF c = Publisher THEN P2 ELSE P1)
        \/ \E sub \in SubIds : c # Publisher /\ ReqBegin(c, sub, <<FKind4>>)
        \/ ReqQuery(c)
        \/ ReqEose(c)
        \/ ReqFinal(c)
        \/ \E ev \in PrivilegeSubmissions :
              nEv < MaxFanout /\ c = Publisher /\ EvBegin(c, ev)
        \/ EvAdd(c)
        \/ EvDeliver(c)
        \/ EvOk(c)

SpecPrivilege == InitAuth /\ [][NextPrivilege]_vars

\* --------------------------------------------- the follow lists of the relay

\* How long a list of pubkeys is at most.
MaxList == 2

\* The lists of pubkeys of at most n entries.
RECURSIVE PubkeysUpTo(_)
PubkeysUpTo(n) ==
    IF n = 0 THEN {<<>>}
    ELSE PubkeysUpTo(n - 1)
         \cup {Append(l, pk) : l \in PubkeysUpTo(n - 1), pk \in {P1, P2}}

PubkeyListsOf == PubkeysUpTo(MaxList)

\* The entries of a list.
Range(l) == {l[i] : i \in 1..Len(l)}

\* The loop of Spider that is to take the pubkeys of ownersFollowed and of
\* ownersMuted out of followedFollows: each inner loop ends at the first
\* equal entry, with a break that leaves the inner loop only, and the
\* append after the inner loops runs for every follow.
RECURSIVE FilteredFollows(_, _, _)
FilteredFollows(followedFollows, ownersFollowed, ownersMuted) ==
    IF followedFollows = <<>> THEN <<>>
    ELSE LET follow == followedFollows[1]
             brokeAtFollowed == \E i \in 1..Len(ownersFollowed) :
                                    ownersFollowed[i] = follow
             brokeAtMuted == \E i \in 1..Len(ownersMuted) :
                                 ownersMuted[i] = follow
         IN  (IF brokeAtFollowed \/ brokeAtMuted THEN <<follow>>
              ELSE <<follow>>)
             \o FilteredFollows(Tail(followedFollows), ownersFollowed,
                                ownersMuted)

\* Server.Spider with the owners of the configuration and with what the
\* three calls of SpiderFetch return; failed tells which of the calls
\* returns an error (0: none). Without owners, or when a call fails, it
\* returns before it sets a list.
Spider(owners, ownersFollowed, followedFollows, ownersMuted, failed) ==
    /\ lists' = IF owners = <<>> \/ failed # 0 THEN lists
                ELSE [ownersPubkeys |-> owners,
                      ownersFollowed |-> ownersFollowed \o owners,
                      followedFollows |->
                          FilteredFollows(followedFollows, ownersFollowed,
                                          ownersMuted),
                      ownersMuted |-> ownersMuted]
    /\ asked' = [op |-> "spider", f |-> FNone, ids |-> owners]
    /\ got' = <<>>
    /\ UNCHANGED <<relayvars, clientvars>>

\* Server.UserAuth on a request for which httpauth.CheckAuth returns valid,
\* pubkey and err: the return values authed, pubkey and super. peers is
\* s.Peers.Pubkeys.
UserAuthResult(valid, pubkey, err, peers) ==
    IF err THEN [authed |-> FALSE, pubkey |-> pubkey, super |-> FALSE]
    ELSE IF ~valid THEN [authed |-> FALSE, pubkey |-> pubkey, super |-> FALSE]
    ELSE IF pubkey \in Range(lists.ownersFollowed \o lists.followedFollows)
    THEN [authed |-> TRUE, pubkey |-> pubkey, super |-> FALSE]
    ELSE IF Len(peers) > 0 /\ pubkey \in Range(peers)
    THEN [authed |-> TRUE, pubkey |-> pubkey, super |-> TRUE]
    ELSE [authed |-> FALSE, pubkey |-> pubkey, super |-> FALSE]

UserAuth(valid, pubkey, err, peers) ==
    /\ asked' = [op |-> "userauth", f |-> FNone, ids |-> peers,
                 valid |-> valid, pubkey |-> pubkey, err |-> err]
    /\ got' = <<UserAuthResult(valid, pubkey, err, peers)>>
    /\ UNCHANGED <<relayvars, appvars, clientvars>>

\* Spider with at most one owner and one muted pubkey, and requests to a
\* relay with those lists and at most one peer.
NextFollows ==
    \/ \E owners \in PubkeysUpTo(1),
          ownersFollowed, followedFollows \in PubkeyListsOf,
          ownersMuted \in PubkeysUpTo(1),
          failed \in 0..3 :
           Spider(owners, ownersFollowed, followedFollows, ownersMuted, failed)
    \/ \E valid, err \in BOOLEAN, pubkey \in {P1, P2},
          peers \in PubkeysUpTo(1) :
           UserAuth(valid, pubkey, err, peers)

SpecFollows == Init /\ [][NextFollows]_vars

\* ------------------------------------------------ the client's Subscription

\* How many EVENT and EOSE envelopes the client's reader dispatches to the
\* Subscription.
MaxDispatch == 3

\* The goroutine that holds no lock: the mutex is free.
NoHolder == 0

\* The holder of the mutex when it is the goroutine of start.
StartHolder == MaxDispatch + 1

\* A send on a closed channel panics, and the panic ends the process.
Running == \A k \in 1..Len(gor.evs) : gor.evs[k].st # "panic"

\* A dispatchEvent that never adds to the wait group.
NeverAdds(seenEose) == FALSE

\* dispatchEvent adds to storedwg when no EOSE has come: !sub.eosed.Load()
AddsToWaitGroup(seenEose) == ~seenEose

\* Fire, from sub.live.Store(true) on: the REQ is written.
Fire ==
    /\ Running
    /\ Subscription' = [Subscription EXCEPT !.live = TRUE]
    /\ UNCHANGED <<relayvars, dbvars, appvars, gor, recv>>

\* The context of the subscription is cancelled: by its owner, by a
\* timeout, or by Fire when the write fails.
Cancel ==
    /\ Running
    /\ Subscription' = [Subscription EXCEPT !.done = TRUE]
    /\ UNCHANGED <<relayvars, dbvars, appvars, gor, recv>>

\* Unsub called by the owner: sub.cancel(), then live goes from true to
\* false.
Unsub ==
    /\ Running
    /\ Subscription' = [Subscription EXCEPT !.done = TRUE, !.live = FALSE]
    /\ UNCHANGED <<relayvars, dbvars, appvars, gor, recv>>

\* start: <-sub.Context.Done()
StartWake ==
    /\ Running
    /\ gor.start = "wait"
    /\ Subscription.done
    /\ gor' = [gor EXCEPT !.start = "unsub"]
    /\ UNCHANGED <<relayvars, dbvars, appvars, Subscription, recv>>

\* start: sub.Unsub()
StartUnsub ==
    /\ Running
    /\ gor.start = "unsub"
    /\ Subscription' = [Subscription EXCEPT !.live = FALSE]
    /\ gor' = [gor EXCEPT !.start = "lock"]
    /\ UNCHANGED <<relayvars, dbvars, appvars, recv>>

\* start: sub.mu.Lock()
StartLock ==
    /\ Running
    /\ gor.start = "lock"
    /\ Subscription.mu = NoHolder
    /\ Subscription' = [Subscription EXCEPT !.mu = StartHolder]
    /\ gor' = [gor EXCEPT !.start = "close"]
    /\ UNCHANGED <<relayvars, dbvars, appvars, recv>>

\* start: close(sub.Events); sub.mu.Unlock()
StartClose ==
    /\ Running
    /\ gor.start = "close"
    /\ Subscription' = [Subscription EXCEPT !.closed = TRUE, !.mu = NoHolder]
    /\ gor' = [gor EXCEPT !.start = "end"]
    /\ UNCHANGED <<relayvars, dbvars, appvars, recv>>

\* dispatchEvent up to the go statement: the event takes the next number;
\* the wait group counts it when no EOSE has come; its goroutine starts.
DispatchEvent ==
    /\ Running
    /\ Len(recv.dispatched) < MaxDispatch
    /\ LET added == AddsToWaitGroup(Subscription.eosed)
           k == Len(gor.evs) + 1
       IN  /\ Subscription' =
                  [Subscription EXCEPT
                      !.storedwg = IF added THEN @ + 1 ELSE @]
           /\ gor' = [gor EXCEPT
                         !.evs = Append(@, [added |-> added, st |-> "lock"])]
           /\ recv' = [recv EXCEPT !.dispatched = Append(@, k)]
    /\ UNCHANGED <<relayvars, dbvars, appvars>>

\* The goroutine of event k: sub.mu.Lock()
EventLock(k) ==
    /\ Running
    /\ gor.evs[k].st = "lock"
    /\ Subscription.mu = NoHolder
    /\ Subscription' = [Subscription EXCEPT !.mu = k]
    /\ gor' = [gor EXCEPT !.evs[k].st = "held"]
    /\ UNCHANGED <<relayvars, dbvars, appvars, recv>>

\* if sub.live.Load()
EventLive(k) ==
    /\ Running
    /\ gor.evs[k].st = "held"
    /\ gor' = [gor EXCEPT
                  !.evs[k].st = IF Subscription.live THEN "select" ELSE "after"]
    /\ UNCHANGED <<relayvars, dbvars, appvars, Subscription, recv>>

\* case sub.Events <- evt: the receiver takes the event from the open
\* channel; on the closed channel the send panics.
EventSend(k) ==
    /\ Running
    /\ gor.evs[k].st = "select"
    /\ IF Subscription.closed
       THEN /\ gor' = [gor EXCEPT !.evs[k].st = "panic"]
            /\ UNCHANGED recv
       ELSE /\ gor' = [gor EXCEPT !.evs[k].st = "after"]
            /\ recv' = [recv EXCEPT !.events = Append(@, k)]
    /\ UNCHANGED <<relayvars, dbvars, appvars, Subscription>>

\* case <-sub.Context.Done()
EventContextDone(k) ==
    /\ Running
    /\ gor.evs[k].st = "select"
    /\ Subscription.done
    /\ gor' = [gor EXCEPT !.evs[k].st = "after"]
    /\ UNCHANGED <<relayvars, dbvars, appvars, Subscription, recv>>

\* if added { sub.storedwg.Done() }, and the deferred sub.mu.Unlock()
EventDone(k) ==
    /\ Running
    /\ gor.evs[k].st = "after"
    /\ Subscription' =
           [Subscription EXCEPT
               !.storedwg = IF gor.evs[k].added THEN @ - 1 ELSE @,
               !.mu = NoHolder]
    /\ gor' = [gor EXCEPT !.evs[k].st = "end"]
    /\ UNCHANGED <<relayvars, dbvars, appvars, recv>>

\* dispatchEose: the first call sets eosed and starts the goroutine that
\* waits for the wait group; a later call does nothing.
DispatchEose ==
    /\ Running
    /\ Len(recv.dispatched) < MaxDispatch
    /\ Subscription' = [Subscription EXCEPT !.eosed = TRUE]
    /\ gor' = [gor EXCEPT
                  !.eose = IF Subscription.eosed THEN @ ELSE "wait"]
    /\ recv' = [recv EXCEPT !.dispatched = Append(@, 0)]
    /\ UNCHANGED <<relayvars, dbvars, appvars>>

\* sub.storedwg.Wait(); sub.EndOfStoredEvents <- struct{}{}
EoseSignal ==
    /\ Running
    /\ gor.eose = "wait"
    /\ Subscription.storedwg = 0
    /\ gor' = [gor EXCEPT !.eose = "sent"]
    /\ recv' = [recv EXCEPT !.eose = Append(@, Len(recv.events))]
    /\ UNCHANGED <<relayvars, dbvars, appvars, Subscription>>

\* The owner of the Subscription, the reader of the client that dispatches
\* to it, and its goroutines.
NextClient ==
    \/ Fire
    \/ Cancel
    \/ Unsub
    \/ StartWake
    \/ StartUnsub
    \/ StartLock
    \/ StartClose
    \/ DispatchEvent
    \/ DispatchEose
    \/ EoseSignal
    \/ \E k \in 1..MaxDispatch :
           /\ k <= Len(gor.evs)
           /\ \/ EventLock(k)
              \/ EventLive(k)
              \/ EventSend(k)
              \/ EventContextDone(k)
              \/ EventDone(k)

SpecClient == Init /\ [][NextClient]_vars

\* --------------------------------------------------- the event as JSON, J

\* schnorr.PubKeyBytesLen, counted in bytes of this model, in which a pubkey
\* is one byte and a signature SignatureSize bytes.
PubKeyBytesLen == 1

\* How many characters longer than a signature in hex a string of J is.
MaxOver == 1

\* The characters of the strings of J: a hex digit and a letter that is none.
Chars == {"a", "g"}

HexDigits == {"a"}

RECURSIVE StringsUpTo(_)
StringsUpTo(n) ==
    IF n = 0 THEN {<<>>}
    ELSE LET shorter == StringsUpTo(n - 1)
         IN  shorter \cup
                 {Append(s, ch) : s \in {x \in shorter : Len(x) = n - 1},
                                  ch \in Chars}

\* hex.Dec: one byte for every two hex digits; a string of odd length, or
\* one with a character that is no hex digit, is an error.
HexDec(s) ==
    IF Len(s) % 2 = 1 \/ \E i \in 1..Len(s) : s[i] \notin HexDigits
    THEN [err |-> TRUE, b |-> <<>>]
    ELSE [err |-> FALSE,
          b |-> [i \in 1..(Len(s) \div 2) |-> <<s[2 * i - 1], s[2 * i]>>]]

\* E.IdFromString
IdFromString(s) == HexDec(s)

\* E.PubKeyFromString: the error of the length test is assigned and then
\* assigned again from hex.Dec.
PubKeyFromString(s) ==
    LET lengthErr == Len(s) # 2 * PubKeyBytesLen
    IN  HexDec(s)

\* E.SigFromString, with the same two assignments.
SigFromString(s) ==
    LET lengthErr == Len(s) # 2 * SignatureSize
    IN  HexDec(s)

\* E.KindFromInt: uint16(i)
KindFromInt(i) == i % 65536

\* J.ToEvent: the fields are set in the order id, created_at, kind, pubkey,
\* tags, content, sig, and the first error returns the event as it is then.
ToEventResult(j) ==
    LET id == IdFromString(j.Id)
        pk == PubKeyFromString(j.Pubkey)
        sig == SigFromString(j.Sig)
        e0 == [id |-> id.b, created_at |-> 0, kind |-> 0, pubkey |-> <<>>,
               tags |-> <<>>, content |-> 0, sig |-> <<>>]
        e1 == [e0 EXCEPT !.created_at = j.CreatedAt,
                         !.kind = KindFromInt(j.Kind),
                         !.pubkey = pk.b]
        e2 == [e1 EXCEPT !.tags = j.Tags, !.content = j.Content,
                         !.sig = sig.b]
    IN  IF id.err THEN [err |-> TRUE, ev |-> e0]
        ELSE IF pk.err THEN [err |-> TRUE, ev |-> e1]
        ELSE [err |-> sig.err, ev |-> e2]

\* The J values converted: every string of the two characters, up to MaxOver
\* characters longer than the hex of the field, as pubkey and as sig.
JValues ==
    [Id : {<<"a", "a">>, <<"g", "g">>},
     Pubkey : StringsUpTo(2 * PubKeyBytesLen + MaxOver),
     CreatedAt : {1},
     Kind : {TextNote},
     Tags : {<<>>},
     Content : {0},
     Sig : StringsUpTo(2 * SignatureSize + MaxOver)]

\* A J value is given to be converted.
InitJson ==
    /\ store = {}
    /\ nextSer = 1
    /\ Map = <<>>
    /\ out = [c \in Conns |-> <<>>]
    /\ pc = [c \in Conns |-> "idle"]
    /\ env = [c \in Conns |-> NoEnv]
    /\ loc = [c \in Conns |-> NoLoc]
    /\ eosed = {}
    /\ deleted = {}
    /\ authRequired = FALSE
    /\ publicReadable = TRUE
    /\ authedPubkey = [c \in Conns |-> 0]
    /\ nEv = 0
    /\ nReq = 0
    /\ nClose = 0
    /\ asked \in {[op |-> "j", f |-> FNone, ids |-> <<>>, j |-> j] :
                    j \in JValues}
    /\ got = <<>>
    /\ gone = {}
    /\ permitted = [k \in Conns \X SubIds |-> <<>>]
    /\ lists = NoLists
    /\ Subscription = NewSub
    /\ gor = NewGor
    /\ recv = NoRecv

\* j.ToEvent()
ToEvent ==
    /\ asked.op = "j"
    /\ asked' = [asked EXCEPT !.op = "toevent"]
    /\ got' = <<ToEventResult(asked.j)>>
    /\ UNCHANGED <<relayvars, appvars, clientvars>>

NextJson == ToEvent

SpecJson == InitJson /\ [][NextJson]_vars

\* ------------------------------------------------------------ properties

\* The entries a step appends to the output of connection c.
Appended(c) == {i \in (Len(out[c]) + 1)..Len(out'[c]) : TRUE}

\* C1: for every REQ that the relay accepts, every stored match is written
\* before the EOSE of that REQ, and no live event is written under the
\* subscription id of the REQ until its EOSE has been written, also when
\* the id is the one of a subscription the connection already holds.
C1_EoseAfterStoredBeforeLive ==
    [][\A c \in Conns :
          /\ (pc[c] = "req_query" /\ loc'[c] # loc[c]) =>
                LET f == loc[c].allowed[loc[c].i]
                IN  f.limit # <<0>> =>
                       out'[c] = out[c] \o
                          EventMsgs(env[c].sub,
                                    Privileged(c, QueryEvents(store, f)),
                                    "stored")
          /\ pc[c] \in {"req_query", "req_eose"} =>
                \A i \in Appended(c) :
                    ~(/\ out'[c][i].t = "EVENT"
                      /\ out'[c][i].src = "live"
                      /\ out'[c][i].sub = env[c].sub)]_vars

\* C2: when an EVENT is accepted, every subscription of another connection
\* whose EOSE is written, that is still open and that matches the event has
\* been sent the event under its subscription id by the time the publisher
\* is done. The subscriptions considered have a filter without ids, which
\* the relay never closes on its own.
C2_LiveDelivery ==
    \A c \in Conns :
        (pc[c] = "ev_ok" /\ loc[c].ok) =>
            \A s \in loc[c].owed :
                (/\ s \in eosed
                 /\ \E k \in 1..Len(s.filters) : s.filters[k].ids = {})
                => \E i \in 1..Len(out[s.conn]) :
                      out[s.conn][i] = EventMsg(s.sub, env[c].ev, "live")

\* The store has an event with this id.
Stored(id) == id \in StoredIds(store)

\* Connection c has been sent this message.
Sent(c, m) == \E i \in 1..Len(out[c]) : out[c][i] = m

\* C3: a deletion whose author is P removes no stored event of an author
\* other than P, be the target named by an e tag or by an a tag: every
\* record that leaves the store does so in the handling of a kind-5 event
\* with the pubkey of the record.
C3_DeletionAuthority ==
    [][\A r \in store \ store' :
          \E c \in Conns, ev \in Submissions :
              /\ EvBegin(c, ev)
              /\ ev.kind = Deletion
              /\ ev.pubkey = r.ev.pubkey]_vars

\* A deletion of EvA by the other author was answered as blocked and EvA is
\* still stored.
C3_Witness ==
    /\ Stored(EvA.id)
    /\ \E c \in Conns : Sent(c, OkMsg(DelOther.id, FALSE, "blocked"))

\* C4: once an event has been deleted by its author, no later EVENT
\* submission with its id gets as far as AddEvent, which hands it to the
\* store; each is answered with OK false before that.
C4_NoReplayOfDeleted ==
    \A c \in Conns :
        pc[c] \in {"ev_add", "ev_deliver", "ev_ok"} =>
            env[c].ev.id \notin deleted

\* C5: an event whose signature does not verify, because it is invalid or
\* because verification returns an error, is never passed to the store and
\* never delivered to subscribers.
C5_UnverifiedNeverStored ==
    \A c \in Conns :
        pc[c] \in {"ev_add", "ev_deliver", "ev_ok"} =>
            LET v == Verify(env[c].ev) IN v.valid /\ ~v.err

\* C6: every event HandleEvent passes to the store has the id that is the
\* hash of its canonical form; a submission with another id is answered
\* with OK false, changes nothing in the store and starts no deletion
\* processing.
C6_IdIsHashOfCanonical ==
    [][/\ \A c \in Conns :
            pc'[c] \in {"ev_add", "ev_deliver", "ev_ok"} =>
                env'[c].ev.id = Hash(ToCanonical(env'[c].ev))
       /\ \A r \in store' : r.ev.id = Hash(ToCanonical(r.ev))
       /\ \A c \in Conns, ev \in Submissions :
            (ev.id # Hash(ToCanonical(ev)) /\ EvBegin(c, ev)) =>
                /\ store' = store
                /\ deleted' = deleted
                /\ pc'[c] = "idle"
                /\ out'[c] = out[c] \o <<OkMsg(ev.id, FALSE, "invalid")>>]_vars

\* The submission with the wrong id was answered as invalid while the store
\* holds an event.
C6_Witness ==
    /\ store # {}
    /\ \E c \in Conns : Sent(c, OkMsg(BadId.id, FALSE, "invalid"))

\* Connection c takes the last step of HandleReq.
ReqEnds(c) == pc[c] = "req_final" /\ pc'[c] = "idle"

\* Every filter of the REQ of connection c carries ids, and the store
\* yielded every one of them.
IdsSatisfied(c) ==
    \A k \in 1..Len(env[c].filters) :
        /\ env[c].filters[k].ids # {}
        /\ env[c].filters[k].ids \subseteq loc[c].yielded

\* C7: a REQ whose filters all carry ids, and for which the store yields
\* every requested event, is answered with CLOSED after its EOSE and is
\* not registered for live delivery, whatever its limit values.
C7_IdOnlyReqTerminates ==
    [][\A c \in Conns :
          (ReqEnds(c) /\ IdsSatisfied(c)) =>
              /\ out'[c] = out[c] \o <<ClosedMsg(env[c].sub)>>
              /\ Map' = Map]_vars

\* C8: the relay closes a REQ after its EOSE only if every filter carries
\* ids and all of them were satisfied; in every other case the
\* subscription is registered for live delivery and no CLOSED is written.
C8_ClosedOnlyWhenSatisfied ==
    [][\A c \in Conns :
          (ReqEnds(c) /\ ~IdsSatisfied(c)) =>
              /\ out'[c] = out[c]
              /\ c \in DOMAIN Map'
              /\ env[c].sub \in DOMAIN Map'[c]
              /\ Map'[c][env[c].sub] = env[c].filters]_vars

\* C9: within one REQ every event id is written at most once as an EVENT
\* of the subscription before the EOSE, however many filters the event
\* matches.
C9_NoDuplicateAcrossFilters ==
    [][\A c \in Conns :
          (pc[c] = "req_query" /\ loc'[c] # loc[c]) =>
              \A i \in Appended(c) :
                  /\ out'[c][i].id \notin loc[c].yielded
                  /\ \A j \in Appended(c) :
                        out'[c][j].id = out'[c][i].id => j = i]_vars

\* C10: when a replaceable event is saved after an older one of the same
\* author and kind, a query by that author and kind, made once the save
\* has returned, yields exactly the newer event.
C10_ReplaceableMonotonic ==
    [][\A c \in Conns :
          (pc[c] = "ev_add" /\ pc'[c] = "ev_deliver") =>
              LET e2 == env[c].ev
              IN  \A r \in store :
                      (/\ IsReplaceable(e2.kind)
                       /\ r.ev.pubkey = e2.pubkey
                       /\ r.ev.kind = e2.kind
                       /\ e2.created_at > r.ev.created_at)
                      => QueryEvents(store',
                                     Filter({}, {e2.pubkey}, {e2.kind}, {},
                                            NoLimit)) = <<e2>>]_vars

\* Both versions of the profile are in the store, the newer one saved last.
C10_Witness ==
    \E r1, r2 \in store :
        r1.ev = EvR1 /\ r2.ev = EvR2 /\ r1.ser < r2.ser

ByKindAndAuthor(ev) == Filter({}, {ev.pubkey}, {ev.kind}, {}, NoLimit)

\* C13: once a parameterized-replaceable event E by author P is stored and
\* a kind-5 event by P that references E, by the a tag of its coordinate or
\* by the e tag of its id, and is not older than E, is saved, a query by
\* the kind and author of E does not return E; and a deletion that
\* references only an older, superseded event leaves the newer event of the
\* same author and kind in the result of that query.
C13_DeletedHiddenNewerKept ==
    asked.op = "query" =>
        /\ \A e, d \in store :
              ( /\ IsParameterizedReplaceable(e.ev.kind)
                /\ d.ev.kind = Deletion
                /\ d.ev.pubkey = e.ev.pubkey
                /\ Names(d.ev, e.ev)
                /\ d.ev.created_at >= e.ev.created_at
                /\ e.ser < d.ser
                /\ asked.f = ByKindAndAuthor(e.ev) )
              => \A i \in 1..Len(got) : got[i] # e.ev
        /\ \A o, n, d \in store :
              ( /\ d.ev.kind = Deletion
                /\ d.ev.pubkey = o.ev.pubkey
                /\ Names(d.ev, o.ev)
                /\ SameReplaceableKey(o.ev, n.ev)
                /\ Supersedes(n.ev, o.ev)
                /\ ~\E x \in store : x.ev.kind = Deletion /\ Names(x.ev, n.ev)
                /\ ~\E w \in store : /\ w # n
                                     /\ SameReplaceableKey(w.ev, n.ev)
                                     /\ Supersedes(w.ev, n.ev)
                /\ asked.f = ByKindAndAuthor(n.ev) )
              => \E i \in 1..Len(got) : got[i] = n.ev

\* EvPR and then a deletion of it by its author are stored, and the query
\* by its kind and author returns nothing.
C13_Witness ==
    /\ asked.op = "query"
    /\ asked.f = ByKindAndAuthor(EvPR)
    /\ \E e, d \in store :
          /\ e.ev = EvPR
          /\ d.ev \in {DelCoord, DelPR}
          /\ e.ser < d.ser
    /\ got = <<>>

\* C14: id uniqueness. For every store state and every list of ids in a
\* filter, the result of an ids query holds each stored event at most once:
\* a query by one id returns at most one event, and QueryForSerials never
\* returns the same serial twice.
C14_IdsQueryYieldsEachOnce ==
    /\ (asked.op = "query" /\ asked.f.ids # {}) =>
          /\ \A i, j \in 1..Len(got) : got[i].id = got[j].id => i = j
          /\ Cardinality(asked.f.ids) = 1 => Len(got) <= 1
    /\ asked.op = "serials" =>
          \A i, j \in 1..Len(got) : got[i] = got[j] => i = j

\* C15: when the relay requires auth, an event is accepted only if the
\* connection is authenticated as the author of the event (no other peer is
\* whitelisted here); an event submitted over a connection authenticated as
\* some other pubkey is rejected.
C15_AcceptedOnlyFromAuthor ==
    \A c \in Conns :
        (authRequired /\ pc[c] = "ev_deliver") =>
            authedPubkey[c] = env[c].ev.pubkey

\* C16: over the life of one connection the relay writes the AUTH challenge
\* at most once, however many REQs the client sends while unauthenticated.
C16_ChallengeAtMostOnce ==
    \A c \in Conns :
        Cardinality({i \in DOMAIN out[c] : out[c][i].t = "AUTH"}) <= 1

\* C17: when AcceptReq permits only some of the filters of a REQ, the
\* stored results and the live subscription registered for that REQ both
\* use only the permitted filters: every EVENT written for the subscription
\* carries an event that matches a permitted filter.
C17_OnlyPermittedFiltersUsed ==
    [][\A c \in Conns : \A i \in Appended(c) :
          LET msg == out'[c][i]
          IN  msg.t = "EVENT" =>
                \A ev \in Submissions \cup Saved :
                    ev.id = msg.id =>
                        IF msg.src = "stored"
                        THEN Match(loc[c].allowed, ev)
                        ELSE Match(permitted[<<c, msg.sub>>], ev)]_vars

\* The subscriptions the publisher holds, as (listener, id, filters).
Entries(m) ==
    UNION {{<<w, id, m[w][id]>> : id \in DOMAIN m[w]} : w \in DOMAIN m}

\* C18: CLOSE handling is idempotent and local. Removing a named
\* subscription deletes exactly the entry of that connection and
\* subscription id; removing it again, or removing an id that was never
\* registered, changes nothing; the other subscriptions of the connection
\* and all subscriptions of other connections stay as they are.
C18_CloseIdempotentAndLocal ==
    [][\A c \in Conns, id \in SubIds :
          HandleClose(c, id) =>
              /\ Entries(Map') =
                    {e \in Entries(Map) : ~(e[1] = c /\ e[2] = id)}
              /\ removeSubscriberId(Map', c, id) = Map'
              /\ ~(\E e \in Entries(Map) : e[1] = c /\ e[2] = id)
                    => Map' = Map]_vars

\* A CLOSE has removed a subscription that was registered (its EOSE was
\* written and the connection is still open), the CLOSE for it was sent
\* twice, and another subscription is still held.
C18_Witness ==
    /\ nClose = 2
    /\ Map # <<>>
    /\ \E g \in gone :
          /\ pc[g.conn] = "idle"
          /\ \E i \in 1..Len(out[g.conn]) : out[g.conn][i] = EoseMsg(g.sub)
          /\ ~\E e \in Entries(Map) : e[1] = g.conn /\ e[2] = g.sub
          /\ Cardinality(gone) = 1

\* C19: a subscription is destroyed on CLOSE and on connection close. Once
\* removeSubscriberId or removeSubscriber has returned, no Deliver writes
\* an EVENT for the removed subscription, nor, after removeSubscriber, for
\* any subscription of that connection.
C19_NoDeliveryAfterRemoval ==
    [][\A c \in Conns : \A i \in Appended(c) :
          (out'[c][i].t = "EVENT" /\ out'[c][i].src = "live") =>
              [conn |-> c, sub |-> out'[c][i].sub] \notin gone]_vars

\* A subscription that was registered (its EOSE is written) has been
\* removed, and the publisher is about to deliver an event that its
\* filters match.
C19_Witness ==
    \E g \in gone :
        /\ g.conn # Publisher
        /\ pc[g.conn] \in {"idle", "closed"}
        /\ \E i \in 1..Len(out[g.conn]) : out[g.conn][i] = EoseMsg(g.sub)
        /\ pc[Publisher] = "ev_deliver"
        /\ Match(<<FKind1>>, env[Publisher].ev)

\* The serial under which the store holds the event with this id.
SerialOf(id) == (CHOOSE r \in store : r.ev.id = id).ser

\* C20: fan-out preserves store commit order. Of two events that both match
\* a live subscription, the one committed to the store first is written to
\* that subscription first, also when the two are ingested concurrently on
\* different connections.
C20_FanoutInCommitOrder ==
    \A c \in Conns : \A i, j \in 1..Len(out[c]) :
        ( /\ i < j
          /\ out[c][i].t = "EVENT" /\ out[c][i].src = "live"
          /\ out[c][j].t = "EVENT" /\ out[c][j].src = "live"
          /\ out[c][i].sub = out[c][j].sub
          /\ Stored(out[c][i].id) /\ Stored(out[c][j].id) )
        => SerialOf(out[c][i].id) <= SerialOf(out[c][j].id)

\* C21: back-pressure. When the writes to a connection no longer go through,
\* the engine drops that subscriber: a delivery that finds a matching
\* subscription on such a connection removes all subscriptions of the
\* connection, so that it does not stand in the way of later deliveries.
C21_StalledSubscriberDropped ==
    [][\A c \in Conns :
          EvDeliver(c) =>
              \A w \in DOMAIN Map :
                  ( /\ pc[w] = "stalled"
                    /\ \E id \in DOMAIN Map[w] : Match(Map[w][id], env[c].ev) )
                  => w \notin DOMAIN Map']_vars

\* The stored events an e tag of the kind-5 event ev refers to.
ReferencedByETag(ev) ==
    {r \in store : \E i \in 1..Len(ev.tags) :
                      ev.tags[i].k = "e" /\ ev.tags[i].v = <<r.ev.id>>}

\* The kind-5 submissions whose tags are all e tags with a hex value.
ETagDeletions ==
    {ev \in DeleteSubmissions :
        /\ ev.kind = Deletion
        /\ \A i \in 1..Len(ev.tags) :
              ev.tags[i].k = "e" /\ ev.tags[i].v # <<0>>}

\* C22: for a kind-5 event with several e tags, an entry whose referenced
\* event has another author is ignored and the other entries are processed
\* whatever the order of the tags: every referenced event of the deletion's
\* author is deleted, and OK false (blocked) is written only if every entry
\* is blocked.
C22_ForeignEntriesIgnored ==
    [][\A c \in Conns : \A ev \in ETagDeletions :
          EvBegin(c, ev) =>
              /\ \A r \in ReferencedByETag(ev) :
                    r.ev.pubkey = ev.pubkey => r \notin store'
              /\ (\E i \in Appended(c) :
                     out'[c][i] = OkMsg(ev.id, FALSE, "blocked"))
                    => \A r \in ReferencedByETag(ev) :
                          r.ev.pubkey # ev.pubkey]_vars

\* The kind-5 submissions that carry an a tag.
ATagDeletions ==
    {ev \in DeleteSubmissions :
        /\ ev.kind = Deletion
        /\ \E i \in 1..Len(ev.tags) : ev.tags[i].k = "a"}

\* C23: a deletion by a tag removes a stored event only if the event's
\* created_at is less than or equal to the deletion's; a stored event that
\* is newer than the deletion survives.
C23_NewerSurvivesATagDeletion ==
    [][\A c \in Conns : \A ev \in ATagDeletions :
          EvBegin(c, ev) =>
              \A r \in store :
                  r.ev.created_at > ev.created_at => r \in store']_vars

\* The deletion of the coordinate has removed the older event of it.
C23_Witness ==
    /\ EvPR.id \in deleted
    /\ ~Stored(EvPR.id)
    /\ \E c \in Conns : pc[c] = "ev_add" /\ env[c].ev = DelCoord

\* The kind-5 submissions with an e tag whose value is not hex.
BadHexDeletions ==
    {ev \in DeleteSubmissions :
        /\ ev.kind = Deletion
        /\ \E i \in 1..Len(ev.tags) :
              ev.tags[i].k = "e" /\ ev.tags[i].v = <<0>>}

\* C24: an EVENT frame that does not parse, and a kind-5 event with an e tag
\* whose value is not hex, are each answered with OK false and the reason
\* invalid, so that no submission goes without a response.
C24_MalformedAnsweredInvalid ==
    [][\A c \in Conns :
          /\ EvMalformed(c) =>
                \E i \in Appended(c) :
                    /\ out'[c][i].t = "OK"
                    /\ ~out'[c][i].ok
                    /\ out'[c][i].src = "invalid"
          /\ \A ev \in BadHexDeletions :
                EvBegin(c, ev) =>
                    \E i \in Appended(c) :
                        out'[c][i] = OkMsg(ev.id, FALSE, "invalid")]_vars

\* What Export is to write for one record: the event it holds, and for the
\* damaged record nothing when the cells left of it do not decode.
LineOf(r) ==
    IF r.ser # asked.bad THEN <<Serialize(r.ev)>>
    ELSE LET Line(d) == IF d.err THEN <<>> ELSE <<Serialize(d.ev)>>
         IN  Line(UnmarshalBinary(
                      SubSeq(MarshalBinary(r.ev), 1, asked.keep)))

RECURSIVE LinesOf(_)
LinesOf(recs) ==
    IF recs = <<>> THEN <<>> ELSE LineOf(recs[1]) \o LinesOf(Tail(recs))

\* C25: Export without pubkeys writes one line for each stored record in
\* key order, holding the event of the record; a record that does not
\* decode is passed over and the lines of the records after it are what
\* they are without it. (Export reads in a view and changes no record.)
C25_ExportAllInKeyOrder ==
    (asked.op = "export" /\ asked.ids = <<>>)
        => got = LinesOf(BySerial(store))

\* Three records, the second of which is cut short of its signature, have
\* been exported as two lines.
C25_Witness ==
    /\ asked.op = "export" /\ asked.ids = <<>>
    /\ Cardinality(store) = 3
    /\ \E r \in store :
          /\ r.ser = asked.bad
          /\ \E a, b \in store : a.ser < r.ser /\ r.ser < b.ser
          /\ r.ev.content # 0
          /\ asked.keep > 0
    /\ Len(got) = 2

\* The stored events of the authors an export names.
ByAuthors(pubkeys) ==
    {r \in store : \E i \in 1..Len(pubkeys) : r.ev.pubkey = pubkeys[i]}

\* C26: Export with a list of pubkeys writes exactly the stored events of
\* those authors, each as one line.
C26_ExportByAuthors ==
    (asked.op = "export" /\ asked.ids # <<>>)
        => /\ {got[i] : i \in 1..Len(got)}
                 = {Serialize(r.ev) : r \in ByAuthors(asked.ids)}
           /\ Len(got) = Cardinality(ByAuthors(asked.ids))

\* C27: when the relay requires auth and the connection is not
\* authenticated, the handling of an EVENT submission of any kind, kind 5
\* included, leaves the store as it is.
C27_UnauthenticatedLeavesStore ==
    [][\A c \in Conns :
          ( /\ authRequired
            /\ authedPubkey[c] = 0
            /\ \/ \E ev \in AuthDeleteSubmissions : EvBegin(c, ev)
               \/ EvAdd(c) )
          => store' = store]_vars

\* The OK envelopes written to c for the event id.
OkCount(c, id) ==
    Cardinality({i \in 1..Len(out[c]) : out[c][i].t = "OK" /\ out[c][i].id = id})

\* The connection has made at most one submission, so that no id was
\* submitted twice.
SubmittedOnce == nEv <= 1

\* C28: for an EVENT submission the relay writes at most one OK envelope
\* for the id of the event, on every path through HandleEvent.
C28_AtMostOneOk ==
    SubmittedOnce =>
        \A c \in Conns : \A ev \in DeleteSubmissions : OkCount(c, ev.id) <= 1

\* The kind-5 submissions.
Deletions == {ev \in DeleteSubmissions : ev.kind = Deletion}

\* C29: a kind-5 submission that HandleEvent answers with OK false has
\* removed no event from the store.
C29_RejectedDeletionRemovesNothing ==
    [][\A c \in Conns : \A ev \in Deletions :
          ( /\ EvBegin(c, ev)
            /\ \E i \in Appended(c) :
                  /\ out'[c][i].t = "OK"
                  /\ out'[c][i].id = ev.id
                  /\ ~out'[c][i].ok )
          => store' = store]_vars

\* C30: no kind-5 submission removes a stored kind-5 event.
C30_DeletionsAreNotDeleted ==
    [][\A c \in Conns : \A ev \in Deletions :
          EvBegin(c, ev) =>
              \A r \in store : r.ev.kind = Deletion => r \in store']_vars

\* C31: CLOSED ends a REQ: in what HandleReq writes for one REQ, no stored
\* EVENT and no EOSE for the subscription id follows a CLOSED for it, and a
\* REQ answered with CLOSED does not leave a live subscription. The
\* connection has sent one REQ, so that everything written for the id
\* belongs to it.
C31_ClosedIsTerminal ==
    nReq <= 1 =>
        \A c \in Conns : \A sub \in SubIds :
            /\ \A i, j \in 1..Len(out[c]) :
                  (i < j /\ out[c][i] = ClosedMsg(sub))
                      => /\ out[c][j] # EoseMsg(sub)
                         /\ ~( /\ out[c][j].t = "EVENT"
                               /\ out[c][j].sub = sub
                               /\ out[c][j].src = "stored" )
            /\ Sent(c, ClosedMsg(sub))
                  => ~(c \in DOMAIN Map /\ sub \in DOMAIN Map[c])

\* The submitted event with this id.
Submitted(id) == CHOOSE ev \in PrivilegeSubmissions : ev.id = id

\* C32: when the relay requires auth, an event that the pubkey the
\* connection authenticated as is not privileged to fetch is never written
\* to the connection, as a stored result of a REQ or by live fan-out.
C32_UnprivilegedNeverWritten ==
    [][\A c \in Conns : \A i \in Appended(c) :
          (authRequired /\ IsAuthed(c) /\ out'[c][i].t = "EVENT")
              => CheckPrivilege(authedPubkey[c], Submitted(out'[c][i].id))]_vars

\* C33: after Spider has computed the lists, followedFollows holds no
\* pubkey that is in ownersFollowed and none that is in ownersMuted.
C33_FollowedFollowsFiltered ==
    \A i \in 1..Len(lists.followedFollows) :
        /\ lists.followedFollows[i] \notin Range(lists.ownersFollowed)
        /\ lists.followedFollows[i] \notin Range(lists.ownersMuted)

\* C34: for a validly signed request UserAuth returns super exactly when
\* the pubkey is one of the peers, whatever else it is, and authed exactly
\* when the pubkey is in ownersFollowed, in followedFollows or a peer.
C34_SuperForEveryPeer ==
    (asked.op = "userauth" /\ asked.valid /\ ~asked.err)
        => /\ got[1].super = (asked.pubkey \in Range(asked.ids))
           /\ got[1].authed =
                  (asked.pubkey \in Range(lists.ownersFollowed)
                                    \cup Range(lists.followedFollows)
                                    \cup Range(asked.ids))

\* The events dispatched before the first EOSE was.
BeforeEose ==
    {recv.dispatched[i] : i \in {j \in 1..Len(recv.dispatched) :
        /\ recv.dispatched[j] # 0
        /\ \A h \in 1..j : recv.dispatched[h] # 0}}

\* C35: EndOfStoredEvents is signalled at most once, and when it is, the
\* goroutine of every event dispatched before the EOSE has ended: the event
\* was handed to the Events channel or was dropped.
C35_EoseAfterStoredEvents ==
    /\ Len(recv.eose) <= 1
    /\ recv.eose # <<>> => \A k \in BeforeEose : gor.evs[k].st = "end"

\* One event was dispatched before the EOSE and received before the EOSE
\* was signalled, and a second EOSE was dispatched.
C35_Witness ==
    /\ recv.dispatched = <<1, 0, 0>>
    /\ recv.events = <<1>>
    /\ recv.eose = <<1>>

\* C36: no event is sent on the Events channel after the channel was
\* closed.
C36_NoSendAfterClose ==
    \A k \in 1..Len(gor.evs) : gor.evs[k].st # "panic"

\* C37: the events are received from the Events channel in the order in
\* which dispatchEvent was called for them.
C37_ReceivedInDispatchOrder ==
    \A i, j \in 1..Len(recv.events) :
        i < j => recv.events[i] < recv.events[j]

\* The created_at of the stored event with this serial.
TsOfSerial(ser) == (CHOOSE r \in store : r.ser = ser).ev.created_at

\* C38: the serials QueryForSerials returns are in reverse chronological
\* order: the created_at values of their events never increase along the
\* result, for a filter with ids and for one without.
C38_SerialsNewestFirst ==
    asked.op = "serials" =>
        \A i, j \in 1..Len(got) :
            i < j => TsOfSerial(got[i]) >= TsOfSerial(got[j])

\* The ids of the older and then the newer profile were asked for, and the
\* serial of the newer one was returned first.
C38_Witness ==
    /\ asked.op = "serials"
    /\ asked.ids = <<EvR1.id, EvR2.id>>
    /\ Len(got) = 2
    /\ TsOfSerial(got[1]) > TsOfSerial(got[2])

\* A string of exactly n hex digits.
IsHexOfLen(s, n) == Len(s) = n /\ \A i \in 1..Len(s) : s[i] \in HexDigits

\* C39: J.ToEvent returns an error unless the pubkey is a string of exactly
\* 2 * PubKeyBytesLen hex digits and the sig one of exactly
\* 2 * SignatureSize hex digits.
C39_ToEventChecksHexLengths ==
    asked.op = "toevent" /\ ~got[1].err =>
        /\ IsHexOfLen(asked.j.Pubkey, 2 * PubKeyBytesLen)
        /\ IsHexOfLen(asked.j.Sig, 2 * SignatureSize)

============================================================================
